---------------------------- MODULE Spec2Model ----------------------------
(***************************************************************************)
(* Model of git-pull-request.py: the pull-request branch lifecycle         *)
(* (fetch / update / continue-update / merge / close), the temp-file state *)
(* store, the work-directory redirection and the branch naming functions.  *)
(*                                                                         *)
(* Text (branch names, commit ids, comments) is modelled as sequences of   *)
(* one-character strings, so that formatting, slicing and regular          *)
(* expression matching are computed character by character.                *)
(***************************************************************************)
EXTENDS Integers, Sequences, FiniteSets, TLC

VARIABLES
    options,      \* the options map (prefix, update-method, work-dir, ...)
    workDirExists,\* os.path.exists(options['work-dir'])
    treeish,      \* /tmp/git-pull-request-treeish-<id>: request id -> text | NoText
    chdirFile,    \* /tmp/git-pull-request-chdir: directory the caller moves to
    origDirFile,  \* <work-dir>/.git/original_dir_path
    co,           \* per checkout (directory): HEAD branch, tree content, pending operation
    branches,     \* local branches (refs/heads), shared by both checkouts
    tip,          \* branch -> version of its tip
    github,       \* hosting service: the calls the running invocation made, in order
    shellDir,     \* directory of the developer's shell between invocations
    cmd,          \* command of the running invocation
    pc,           \* position of the running invocation
    cwd,          \* current directory of the process
    loc,          \* local variables of the running invocation
    log,          \* effects performed by the running invocation, in order
    status,       \* how the invocation ended
    nav           \* inputs and results of the naming functions

vars == <<options, workDirExists, treeish, chdirFile, origDirFile, co, branches,
          tip, github, shellDir, cmd, pc, cwd, loc, log, status, nav>>

lifeVars == <<options, workDirExists, treeish, chdirFile, origDirFile, co, branches,
              tip, github, shellDir, cmd, pc, cwd, loc, log, status>>

None == "None"

\* the absent text (Python's None where a string is expected); no text equals
\* it, since every element of a text is a single character
NoText == <<"None">>

---------------------------------------------------------------------------
(* Text helpers                                                            *)

Digits == <<"0", "1", "2", "3", "4", "5", "6", "7", "8", "9">>

Digit == {Digits[i] : i \in 1..Len(Digits)}

Upper == {"A", "B", "C", "D", "E", "F", "G", "H", "I", "J", "K", "L", "M",
          "N", "O", "P", "Q", "R", "S", "T", "U", "V", "W", "X", "Y", "Z"}

DigitVal(c) == (CHOOSE i \in 1..Len(Digits) : Digits[i] = c) - 1

RECURSIVE IntToStr(_)
\* '%s' % n for a non-negative integer
IntToStr(n) == IF n < Len(Digits) THEN <<Digits[n + 1]>>
               ELSE IntToStr(n \div Len(Digits)) \o <<Digits[(n % Len(Digits)) + 1]>>

RECURSIVE StrToInt(_)
\* int(s) for a non-empty string of digits
StrToInt(s) == IF Len(s) = 0 THEN 0
               ELSE StrToInt(SubSeq(s, 1, Len(s) - 1)) * Len(Digits) + DigitVal(s[Len(s)])

\* s[i:] starts with t (i is 1-based)
MatchAt(s, i, t) == /\ i + Len(t) - 1 <= Len(s)
                    /\ \A k \in 1..Len(t) : s[i + k - 1] = t[k]

StartsWith(s, t) == MatchAt(s, 1, t)

EndsWith(s, t) == Len(s) >= Len(t) /\ MatchAt(s, Len(s) - Len(t) + 1, t)

Contains(s, t) == \E i \in 1..(Len(s) + 1) : MatchAt(s, i, t)

\* length of the longest run of characters of class cls starting at s[i]
RECURSIVE RunLen(_, _, _)
RunLen(s, i, cls) == IF i <= Len(s) /\ s[i] \in cls THEN 1 + RunLen(s, i + 1, cls) ELSE 0

PullRequestLit == <<"p", "u", "l", "l", "-", "r", "e", "q", "u", "e", "s", "t">>
SupLit == <<"s", "u", "p">>
TechSupportLit == <<"[", "T", "E", "C", "H", "N", "I", "C", "A", "L", " ", "S", "U", "P", "P", "O", "R", "T", "]">>
OriginalCommitsLit == <<"\n", "\n", "O", "r", "i", "g", "i", "n", "a", "l", " ", "c", "o", "m", "m", "i", "t", "s", ":", " ">>
DotDot == <<".", ".">>
Hyphen == <<"-">>

---------------------------------------------------------------------------
(* Naming functions                                                        *)

MinKeyLetters == 3

\* re.search("[A-Z]{3,}-\d+", s) matches at position i: a greedy run of at
\* least three capitals, a hyphen, a greedy run of digits.  (A shorter run of
\* capitals is followed by a capital, never by the hyphen, so backtracking
\* finds nothing the greedy run misses.)
KeyMatchesAt(s, i) ==
    LET n == RunLen(s, i, Upper) IN
    /\ n >= MinKeyLetters
    /\ i + n <= Len(s) /\ s[i + n] = "-"
    /\ RunLen(s, i + n + 1, Digit) >= 1

\* (mutant) the last match instead of the first
IssueKeyLast(s) ==
    IF \E i \in 1..Len(s) : KeyMatchesAt(s, i)
    THEN LET i == CHOOSE j \in 1..Len(s) :
                      KeyMatchesAt(s, j) /\ \A k \in (j + 1)..Len(s) : ~KeyMatchesAt(s, k)
             n == RunLen(s, i, Upper)
         IN SubSeq(s, i, i + n + RunLen(s, i + n + 1, Digit))
    ELSE NoText

\* m.group(0) of the leftmost match, or NoText
IssueKey(s) ==
    IF \E i \in 1..Len(s) : KeyMatchesAt(s, i)
    THEN LET i == CHOOSE j \in 1..Len(s) :
                      KeyMatchesAt(s, j) /\ \A k \in 1..(j - 1) : ~KeyMatchesAt(s, k)
             n == RunLen(s, i, Upper)
         IN SubSeq(s, i, i + n + RunLen(s, i + n + 1, Digit))
    ELSE NoText

build_branch_name(prefix, pull_request) ==
    LET key  == IssueKey(pull_request.ref)
        base == prefix \o Hyphen \o IntToStr(pull_request.number)
        keyed == IF key # NoText THEN base \o Hyphen \o key ELSE base
    IN IF Contains(pull_request.title, TechSupportLit)
       THEN keyed \o Hyphen \o SupLit ELSE keyed

\* one alternative of "^(?:pull-request|<prefix>)-(\d+)": the literal, a
\* hyphen and at least one digit
AltMatches(alt, branch_name) ==
    /\ StartsWith(branch_name, alt \o Hyphen)
    /\ RunLen(branch_name, Len(alt) + 2, Digit) >= 1

AltGroup(alt, branch_name) ==
    SubSeq(branch_name, Len(alt) + 2, Len(alt) + 1 + RunLen(branch_name, Len(alt) + 2, Digit))

\* The alternatives are tried in order; without a match m is None and
\* m.group(1) raises AttributeError.
get_pull_request_ID(prefix, branch_name) ==
    IF AltMatches(PullRequestLit, branch_name)
    THEN [exc |-> None, id |-> StrToInt(AltGroup(PullRequestLit, branch_name))]
    ELSE IF AltMatches(prefix, branch_name)
    THEN [exc |-> None, id |-> StrToInt(AltGroup(prefix, branch_name))]
    ELSE [exc |-> "AttributeError", id |-> 0]

\* the test of get_current_branch_name(ensure_pull_request = True)
LooksLikePullRequest(prefix, branch_name) ==
    StartsWith(branch_name, PullRequestLit) \/ StartsWith(branch_name, prefix)

\* get_current_branch_name() followed by get_pull_request_ID(), as the
\* commands close, merge, pull and open resolve the request of the current
\* branch
ResolveCurrent(prefix, branch_name) ==
    IF ~LooksLikePullRequest(prefix, branch_name)
    THEN [exc |-> "UserWarning", id |-> 0]
    ELSE get_pull_request_ID(prefix, branch_name)

---------------------------------------------------------------------------
(* Inputs of the model                                                     *)

MaxId == 2

IDs == 1..MaxId

Master == <<"m", "a", "s", "t", "e", "r">>
Topic == <<"t", "o", "p", "i", "c">>
PrefixPr == <<"p", "r">>
PrefixPull2 == <<"p", "u", "l", "l", "-", "r", "e", "q", "u", "e", "s", "t", "-", "2">>
PrefixPulls == <<"p", "u", "l", "l", "-", "r", "e", "q", "u", "e", "s", "t", "s">>
RefPlain == <<"h", "o", "t", "f", "i", "x">>
RefKey == <<"f", "e", "a", "t", "u", "r", "e", "/", "A", "B", "C", "-", "1", "0", "0", "-", "f", "i", "x">>
RefShortKey == <<"A", "B", "-", "1", "2">>
RefTwoKeys == <<"X", "L", "P", "S", "-", "5", "-", "D", "E", "F", "-", "6">>
TitlePlain == <<"F", "i", "x", " ", "t", "h", "i", "n", "g">>
TitleSup == <<"[", "T", "E", "C", "H", "N", "I", "C", "A", "L", " ", "S", "U", "P", "P", "O", "R", "T", "]", " ", "u", "r", "g", "e", "n", "t">>
TitleNearSup == <<"[", "T", "E", "C", "H", "N", "I", "C", "A", "L", " ", "S", "U", "P", "P", "O", "R", "T">>
BadPr == <<"p", "u", "l", "l", "-", "r", "e", "q", "u", "e", "s", "t", "-", "a", "b", "c">>
Lgtm == <<"L", "G", "T", "M">>
HashA == <<"a", "b", "c", "1", "2", "3", "4", "5", "6", "7", "a", "a">>
HashC == <<"d", "e", "f", "7", "6", "5", "4", "3", "2", "1", "c", "c">>

\* commit ids git prints (longer than the abbreviation)
Hashes == {HashA, HashC}

\* the pull request records the hosting service returns
Request(n) == [number |-> n,
               ref    |-> IF n % 2 = 1 THEN RefKey ELSE RefPlain,
               title  |-> IF n % 2 = 1 THEN TitlePlain ELSE TitleSup]

Dirs == {"orig", "work"}

---------------------------------------------------------------------------
(* Lifecycle: helpers                                                      *)

AbbrevLen == 10

\* (mutant) the whole commit id
AbbrevWhole(commit) == commit

\* commit[0:10]
Abbrev(commit) == SubSeq(commit, 1, IF Len(commit) < AbbrevLen THEN Len(commit) ELSE AbbrevLen)

\* (mutant) the range form whatever the merge base is
BranchTreeishAlwaysRange(parent_commit, head_commit) ==
    Abbrev(parent_commit) \o DotDot \o Abbrev(head_commit)

\* branch_treeish of update_branch
BranchTreeish(parent_commit, head_commit) ==
    IF parent_commit = head_commit
    THEN Abbrev(head_commit)
    ELSE Abbrev(parent_commit) \o DotDot \o Abbrev(head_commit)

\* (mutant) the configured directory is used without looking at the disk
get_work_dir_unchecked == options.workDir

\* the global work-dir option, when the directory exists (the per-branch
\* override work-dir-<branch> is not configured)
get_work_dir == IF options.workDir # None /\ workDirExists THEN options.workDir ELSE None

\* get_work_dir with a detached HEAD (a stopped rebase): git symbolic-ref HEAD
\* prints nothing, no per-branch option is looked up, _work_dir is still None
\* and os.path.exists(None) raises TypeError
HeadDetached(dir) == co[dir].op = "rebase"

\* .git/config is a symbolic link in a checkout made by git-new-workdir only
ConfigIsLink(dir) == dir = "work"

\* (mutant) the link test inverted
in_work_dir_unlinked(dir) == dir = get_work_dir /\ ~ConfigIsLink(dir)

in_work_dir(dir) == dir = get_work_dir /\ ConfigIsLink(dir)

\* git rev-parse --abbrev-ref HEAD: HEAD is detached while a rebase is stopped
CurrentBranch(dir) ==
    IF co[dir].op = "rebase" THEN <<"H", "E", "A", "D">> ELSE co[dir].branch

Clean(branch, version) == [branch |-> branch, version |-> version, state |-> "clean", op |-> "none"]

NoLoc == [comment |-> NoText, branch_name |-> NoText, pull_request_ID |-> 0,
          parent_commit |-> NoText, head_commit |-> NoText, branch_treeish |-> NoText,
          auto_update |-> FALSE, auto_close |-> FALSE]

IsInt(text) == Len(text) >= 1 /\ RunLen(text, 1, Digit) = Len(text)

Raise(exc) == pc' = "done" /\ status' = exc

Return == pc' = "done" /\ status' = "ok"

\* (mutant) the handler of UserWarning prints and falls off the end
ExitCodeSwallowed == IF status \in {"ok", "UserWarning"} THEN 0 ELSE 1

\* exit status of the process: sys.exit(1) for UserWarning, the interpreter's
\* 1 for an uncaught exception
ExitCode == IF status = "ok" THEN 0 ELSE 1

Begin(command, comment) ==
    /\ pc = "idle"
    /\ cmd' = command
    /\ pc' = command
    /\ loc' = [NoLoc EXCEPT !.comment = comment]
    /\ status' = "running"
    /\ UNCHANGED <<options, workDirExists, treeish, chdirFile, origDirFile, co,
                   branches, tip, github, shellDir, cwd, log, nav>>

PrBranches == {build_branch_name(options.prefix, Request(n)) : n \in IDs}

UpdateTargets == {IntToStr(n) : n \in IDs} \cup PrBranches \cup {Topic}

---------------------------------------------------------------------------
(* Lifecycle: initial state                                                *)

NavIdle == [phase |-> "off"]

Init ==
    /\ options \in [prefix : {PullRequestLit},
                    method : {"merge", "rebase"},
                    workDir : {None, "work"},
                    defaultComment : {NoText}]
    /\ workDirExists \in (IF options.workDir = None THEN {FALSE} ELSE BOOLEAN)
    /\ treeish = [n \in IDs |-> NoText]
    /\ chdirFile = None
    /\ origDirFile = None
    /\ branches = {Master, Topic} \cup PrBranches
    /\ tip = [b \in branches |-> "fetched"]
    /\ \E b \in branches :
          co = [d \in Dirs |-> IF d = "orig" THEN Clean(b, "fetched") ELSE Clean(Master, "fetched")]
    /\ github = <<>>
    /\ shellDir = "orig"
    /\ cmd = "none"
    /\ pc = "idle"
    /\ cwd = "orig"
    /\ loc = NoLoc
    /\ log = <<>>
    /\ status = "none"
    /\ nav = NavIdle

---------------------------------------------------------------------------
(* update                                                                  *)

\* gitpr update [<pull request ID or branch name>]: the dispatch of main and
\* command_update up to its call of update_branch.  Without an argument main
\* passes update_branch_option, a name it never binds: NameError.
command_update(target) ==
    IF target = NoText
    THEN Raise("NameError") /\ UNCHANGED loc
    ELSE IF IsInt(target)
    THEN \E apiOk \in BOOLEAN :
            IF apiOk /\ StrToInt(target) \in IDs
            THEN /\ loc' = [NoLoc EXCEPT !.branch_name =
                               build_branch_name(options.prefix, Request(StrToInt(target)))]
                 /\ pc' = "update_branch" /\ status' = "running"
            ELSE Raise("UserWarning") /\ UNCHANGED loc
    ELSE /\ loc' = [NoLoc EXCEPT !.branch_name = target]
         /\ pc' = "update_branch" /\ status' = "running"

StartUpdate ==
    /\ pc = "idle"
    /\ \E target \in UpdateTargets \cup {NoText} : command_update(target)
    /\ cmd' = "update"
    /\ UNCHANGED <<options, workDirExists, treeish, chdirFile, origDirFile, co,
                   branches, tip, github, shellDir, cwd, log, nav>>

\* update_branch: the context check, which is the first call of get_work_dir
UpdateCheckContext ==
    /\ pc = "update_branch"
    /\ IF HeadDetached(cwd)
       THEN Raise("TypeError") /\ UNCHANGED log
       ELSE IF in_work_dir(cwd)
       THEN Raise("UserWarning") /\ log' = Append(log, "invalid_context")
       ELSE pc' = "enter_work_dir" /\ UNCHANGED <<status, log>>
    /\ UNCHANGED <<options, workDirExists, treeish, chdirFile, origDirFile, co,
                   branches, tip, github, shellDir, cmd, cwd, loc, nav>>

\* (mutant) the record is written and the directory is not changed
UpdateEnterWorkDirStays ==
    /\ pc = "enter_work_dir"
    /\ IF get_work_dir # None
       THEN /\ origDirFile' = cwd
            /\ log' = log \o <<"enter_work_dir", "put_original_dir">>
            /\ pc' = "reset_work_dir"
       ELSE /\ pc' = "checkout"
            /\ UNCHANGED <<origDirFile, log>>
    /\ UNCHANGED <<options, workDirExists, treeish, chdirFile, co, branches, tip,
                   github, shellDir, cmd, cwd, loc, status, nav>>

\* (mutant) the work directory is entered and used as it was left
UpdateEnterWorkDirNoReset ==
    /\ pc = "enter_work_dir"
    /\ IF get_work_dir # None
       THEN /\ cwd' = get_work_dir
            /\ origDirFile' = cwd
            /\ log' = log \o <<"enter_work_dir", "put_original_dir">>
            /\ pc' = "checkout"
       ELSE /\ pc' = "checkout"
            /\ UNCHANGED <<cwd, origDirFile, log>>
    /\ UNCHANGED <<options, workDirExists, treeish, chdirFile, co, branches, tip,
                   github, shellDir, cmd, loc, status, nav>>

\* update_branch: switch to the work directory and record where we came from
UpdateEnterWorkDir ==
    /\ pc = "enter_work_dir"
    /\ IF get_work_dir # None
       THEN /\ cwd' = get_work_dir
            /\ origDirFile' = cwd
            /\ log' = log \o <<"enter_work_dir", "put_original_dir">>
            /\ pc' = "reset_work_dir"
       ELSE /\ pc' = "checkout"
            /\ UNCHANGED <<cwd, origDirFile, log>>
    /\ UNCHANGED <<options, workDirExists, treeish, chdirFile, co, branches, tip,
                   github, shellDir, cmd, loc, status, nav>>

\* update_branch: git reset --hard && git clean -f in the work directory
UpdateReset ==
    /\ pc = "reset_work_dir"
    /\ \E ok \in BOOLEAN :
          IF ok
          THEN /\ co' = [co EXCEPT ![cwd] = Clean(co[cwd].branch, tip[co[cwd].branch])]
               /\ log' = Append(log, "reset")
               /\ pc' = "checkout" /\ UNCHANGED status
          ELSE /\ Raise("UserWarning")
               /\ log' = Append(log, "reset_failed")
               /\ UNCHANGED co
    /\ UNCHANGED <<options, workDirExists, treeish, chdirFile, origDirFile, branches,
                   tip, github, shellDir, cmd, cwd, loc, nav>>

\* update_branch: git checkout <branch_name>
UpdateCheckout ==
    /\ pc = "checkout"
    /\ \E ok \in (IF loc.branch_name \in branches THEN BOOLEAN ELSE {FALSE}) :
          IF ok
          THEN /\ co' = [co EXCEPT ![cwd] = Clean(loc.branch_name, tip[loc.branch_name])]
               /\ log' = Append(log, "checkout")
               /\ pc' = "treeish" /\ UNCHANGED status
          ELSE /\ Raise("UserWarning")
               /\ log' = Append(log, "checkout_failed")
               /\ UNCHANGED co
    /\ UNCHANGED <<options, workDirExists, treeish, chdirFile, origDirFile, branches,
                   tip, github, shellDir, cmd, cwd, loc, nav>>

\* git rev-parse HEAD: the commit id of the checked-out version
RevParseHead(dir) == IF co[dir].version = "fetched" THEN HashA ELSE HashC

\* (mutant) the range is derived and never written
PutTreeishLost(id, text) == treeish

\* (mutant) one file for all requests
PutTreeishShared(id, text) == [n \in DOMAIN treeish \cup {id} |-> text]

\* writing /tmp/git-pull-request-treeish-<id>
PutTreeish(id, text) == [n \in DOMAIN treeish \cup {id} |-> IF n = id THEN text ELSE treeish[n]]

\* update_branch: derive the commit range and store it under the request id
UpdateTreeish ==
    /\ pc = "treeish"
    /\ \E parent_commit \in Hashes :
          LET head_commit == RevParseHead(cwd)
              r == get_pull_request_ID(options.prefix, loc.branch_name)
              text == BranchTreeish(parent_commit, head_commit)
          IN IF r.exc = None
             THEN /\ treeish' = PutTreeish(r.id, text)
                  /\ loc' = [loc EXCEPT !.parent_commit = parent_commit,
                                        !.head_commit = head_commit,
                                        !.branch_treeish = text,
                                        !.pull_request_ID = r.id]
                  /\ log' = Append(log, "put_treeish")
                  /\ pc' = "update_operation" /\ UNCHANGED status
             ELSE /\ Raise(r.exc)
                  /\ loc' = [loc EXCEPT !.parent_commit = parent_commit,
                                        !.head_commit = head_commit,
                                        !.branch_treeish = text]
                  /\ UNCHANGED <<treeish, log>>
    /\ UNCHANGED <<options, workDirExists, chdirFile, origDirFile, co, branches,
                   tip, github, shellDir, cmd, cwd, nav>>

\* (mutant) a failed merge/rebase takes the stored commit range back
UpdateOperationClears ==
    /\ pc = "update_operation"
    /\ \E ok \in BOOLEAN :
          IF ok
          THEN /\ tip' = [tip EXCEPT ![loc.branch_name] = "updated"]
               /\ co' = [co EXCEPT ![cwd] = Clean(loc.branch_name, "updated")]
               /\ log' = Append(log, "update_ok")
               /\ pc' = "complete_update"
               /\ UNCHANGED <<chdirFile, status, treeish>>
          ELSE /\ co' = [co EXCEPT ![cwd] = [@ EXCEPT !.state = "conflict", !.op = options.method]]
               /\ chdirFile' = IF get_work_dir # None THEN get_work_dir ELSE chdirFile
               /\ treeish' = [treeish EXCEPT ![loc.pull_request_ID] = NoText]
               /\ log' = Append(log, "update_conflict")
               /\ Raise("UserWarning")
               /\ UNCHANGED tip
    /\ UNCHANGED <<options, workDirExists, origDirFile, branches,
                   github, shellDir, cmd, cwd, loc, nav>>

\* update_branch: git merge|rebase <update-branch>; on failure the partial
\* merge or rebase stays in the checkout
UpdateOperation ==
    /\ pc = "update_operation"
    /\ \E ok \in BOOLEAN :
          IF ok
          THEN /\ tip' = [tip EXCEPT ![loc.branch_name] = "updated"]
               /\ co' = [co EXCEPT ![cwd] = Clean(loc.branch_name, "updated")]
               /\ log' = Append(log, "update_ok")
               /\ pc' = "complete_update"
               /\ UNCHANGED <<chdirFile, status>>
          ELSE /\ co' = [co EXCEPT ![cwd] = [@ EXCEPT !.state = "conflict", !.op = options.method]]
               /\ chdirFile' = IF get_work_dir # None THEN get_work_dir ELSE chdirFile
               /\ log' = Append(log, "update_conflict")
               /\ Raise("UserWarning")
               /\ UNCHANGED tip
    /\ UNCHANGED <<options, workDirExists, treeish, origDirFile, branches,
                   github, shellDir, cmd, cwd, loc, nav>>

---------------------------------------------------------------------------
(* complete_update                                                         *)

\* (mutant) the work directory is left on the pull-request branch
CompleteUpdateBaseSkipped ==
    /\ pc = "complete_update"
    /\ IF in_work_dir(cwd)
       THEN /\ log' = Append(log, "checkout_base")
            /\ pc' = "complete_switch" /\ UNCHANGED <<status, co>>
       ELSE Return /\ UNCHANGED <<co, log>>
    /\ UNCHANGED <<options, workDirExists, treeish, chdirFile, origDirFile, branches,
                   tip, github, shellDir, cmd, cwd, loc, nav>>

\* (mutant) the update is complete where it ran
CompleteUpdateBaseStays ==
    /\ pc = "complete_update"
    /\ Return
    /\ UNCHANGED <<options, workDirExists, treeish, chdirFile, origDirFile, co, branches,
                   tip, github, shellDir, cmd, cwd, loc, log, nav>>

\* complete_update: inside the work directory, check out the update branch
\* there; outside it there is nothing to do
CompleteUpdateBase ==
    /\ pc = "complete_update"
    /\ IF in_work_dir(cwd)
       THEN \E ok \in BOOLEAN :
               IF ok
               THEN /\ co' = [co EXCEPT ![cwd] = Clean(Master, tip[Master])]
                    /\ log' = Append(log, "checkout_base")
                    /\ pc' = "complete_switch" /\ UNCHANGED status
               ELSE /\ Raise("UserWarning")
                    /\ log' = Append(log, "checkout_base_failed")
                    /\ UNCHANGED co
       ELSE Return /\ UNCHANGED <<co, log>>
    /\ UNCHANGED <<options, workDirExists, treeish, chdirFile, origDirFile, branches,
                   tip, github, shellDir, cmd, cwd, loc, nav>>

\* (mutant) the top level of the current directory instead of the record
get_original_dir_path_here == [exc |-> None, path |-> cwd]

\* get_original_dir_path: the recorded path; an empty record falls back to
\* the parent of the parent of the target of the .git/config link, which is
\* the primary checkout; open() of a missing record raises IOError
get_original_dir_path ==
    IF origDirFile = None THEN [exc |-> "IOError", path |-> None]
    ELSE IF origDirFile = "" THEN [exc |-> None, path |-> "orig"]
    ELSE [exc |-> None, path |-> origDirFile]

\* complete_update: go back to the original directory
CompleteUpdateSwitch ==
    /\ pc = "complete_switch"
    /\ LET r == get_original_dir_path IN
       IF r.exc = None
       THEN /\ cwd' = r.path
            /\ chdirFile' = r.path
            /\ log' = Append(log, "leave_work_dir")
            /\ pc' = "complete_sync" /\ UNCHANGED status
       ELSE Raise(r.exc) /\ UNCHANGED <<cwd, chdirFile, log>>
    /\ UNCHANGED <<options, workDirExists, treeish, origDirFile, co, branches,
                   tip, github, shellDir, cmd, loc, nav>>

\* complete_update: bring the original directory to the updated branch
CompleteUpdateSync ==
    /\ pc = "complete_sync"
    /\ IF CurrentBranch(cwd) = loc.branch_name
       THEN \E ok \in BOOLEAN :
               IF ok
               THEN /\ co' = [co EXCEPT ![cwd] = Clean(loc.branch_name, tip[loc.branch_name])]
                    /\ log' = Append(log, "sync_reset")
                    /\ Return
               ELSE /\ Raise("UserWarning")
                    /\ log' = Append(log, "sync_failed")
                    /\ UNCHANGED co
       ELSE \E ok \in (IF loc.branch_name \in branches THEN BOOLEAN ELSE {FALSE}) :
               IF ok
               THEN /\ co' = [co EXCEPT ![cwd] = Clean(loc.branch_name, tip[loc.branch_name])]
                    /\ log' = Append(log, "sync_checkout")
                    /\ Return
               ELSE /\ Raise("UserWarning")
                    /\ log' = Append(log, "sync_failed")
                    /\ UNCHANGED co
    /\ UNCHANGED <<options, workDirExists, treeish, chdirFile, origDirFile, branches,
                   tip, github, shellDir, cmd, cwd, loc, nav>>

---------------------------------------------------------------------------
(* continue-update                                                         *)

StartContinue == Begin("continue", NoText)

\* continue_update: git commit (merge) or git rebase --continue (rebase).
\* It can succeed only once the conflicts of the stopped operation are
\* resolved and staged.
ContinueOperation ==
    /\ pc = "continue"
    /\ \E ok \in (IF co[cwd].state = "resolved" THEN BOOLEAN ELSE {FALSE}) :
          IF ok
          THEN /\ tip' = [tip EXCEPT ![co[cwd].branch] = "updated"]
               /\ co' = [co EXCEPT ![cwd] = Clean(co[cwd].branch, "updated")]
               /\ log' = Append(log, "continue_ok")
               /\ pc' = "continue_branch" /\ UNCHANGED status
          ELSE /\ Raise("UserWarning")
               /\ log' = Append(log, "still_blocked")
               /\ UNCHANGED <<tip, co>>
    /\ UNCHANGED <<options, workDirExists, treeish, chdirFile, origDirFile, branches,
                   github, shellDir, cmd, cwd, loc, nav>>

\* continue_update: the branch name is read again once the operation is over
ContinueBranchName ==
    /\ pc = "continue_branch"
    /\ IF LooksLikePullRequest(options.prefix, CurrentBranch(cwd))
       THEN /\ loc' = [loc EXCEPT !.branch_name = CurrentBranch(cwd)]
            /\ pc' = "complete_update" /\ UNCHANGED status
       ELSE Raise("UserWarning") /\ UNCHANGED loc
    /\ UNCHANGED <<options, workDirExists, treeish, chdirFile, origDirFile, co,
                   branches, tip, github, shellDir, cmd, cwd, log, nav>>

---------------------------------------------------------------------------
(* close                                                                   *)

\* gitpr close [<comment>]
StartClose == \E comment \in {NoText, Lgtm} : Begin("close", comment)

\* command_close: the current branch, its request id, the request
CloseResolve ==
    /\ pc = "close"
    /\ LET r == ResolveCurrent(options.prefix, CurrentBranch(cwd)) IN
       IF r.exc # None
       THEN Raise(r.exc) /\ UNCHANGED loc
       ELSE \E apiOk \in BOOLEAN :
               IF apiOk /\ r.id \in IDs
               THEN /\ loc' = [loc EXCEPT !.branch_name = CurrentBranch(cwd),
                                          !.pull_request_ID = r.id]
                    /\ pc' = "close_pull_request" /\ UNCHANGED status
               ELSE Raise("UserWarning") /\ UNCHANGED loc
    /\ UNCHANGED <<options, workDirExists, treeish, chdirFile, origDirFile, co,
                   branches, tip, github, shellDir, cmd, cwd, log, nav>>

\* the stored commit range of a request, NoText when there is no file
ReadTreeish(id) == IF id \in DOMAIN treeish THEN treeish[id] ELSE NoText

\* close_pull_request: the comment, with the stored commit range appended.
\* The file is read and closed; nothing removes it.
CloseComment(comment, id) ==
    LET given == IF comment = NoText THEN options.defaultComment ELSE comment IN
    IF ReadTreeish(id) # NoText
    THEN (IF given = NoText THEN <<>> ELSE given) \o OriginalCommitsLit \o ReadTreeish(id)
    ELSE given

TreeishAfterClose(id) == treeish

close_pull_request ==
    /\ pc = "close_pull_request"
    /\ loc' = [loc EXCEPT !.comment = CloseComment(loc.comment, loc.pull_request_ID)]
    /\ treeish' = TreeishAfterClose(loc.pull_request_ID)
    /\ log' = IF ReadTreeish(loc.pull_request_ID) # NoText
              THEN Append(log, "read_treeish") ELSE log
    /\ pc' = "post_comment"
    /\ UNCHANGED <<options, workDirExists, chdirFile, origDirFile, co, branches,
                   tip, github, shellDir, cmd, cwd, status, nav>>

\* close_pull_request: post_comment, when there is a comment; an error of the
\* request is raised by github_json_request and ends close_pull_request
ClosePostComment ==
    /\ pc = "post_comment"
    /\ IF loc.comment # NoText /\ loc.comment # <<>>
       THEN \E apiOk \in BOOLEAN :
               IF apiOk
               THEN /\ github' = Append(github, [call |-> "comment", id |-> loc.pull_request_ID,
                                                 body |-> loc.comment])
                    /\ log' = Append(log, "post_comment")
                    /\ pc' = "close_issue" /\ UNCHANGED status
               ELSE /\ Raise("UserWarning")
                    /\ log' = Append(log, "post_comment_failed")
                    /\ UNCHANGED github
       ELSE pc' = "close_issue" /\ UNCHANGED <<github, log, status>>
    /\ UNCHANGED <<options, workDirExists, treeish, chdirFile, origDirFile, co,
                   branches, tip, shellDir, cmd, cwd, loc, nav>>

\* close_pull_request: the close call
CloseIssue ==
    /\ pc = "close_issue"
    /\ \E apiOk \in BOOLEAN :
          IF apiOk
          THEN /\ github' = Append(github, [call |-> "close", id |-> loc.pull_request_ID,
                                            body |-> NoText])
               /\ log' = Append(log, "close_call")
               /\ pc' = IF cmd = "close" THEN "close_checkout" ELSE "done"
               /\ status' = IF cmd = "close" THEN status ELSE "ok"
          ELSE /\ Raise("UserWarning")
               /\ log' = Append(log, "close_call_failed")
               /\ UNCHANGED github
    /\ UNCHANGED <<options, workDirExists, treeish, chdirFile, origDirFile, co,
                   branches, tip, shellDir, cmd, cwd, loc, nav>>

\* command_close: git checkout <update-branch>
CloseCheckout ==
    /\ pc = "close_checkout"
    /\ \E ok \in BOOLEAN :
          IF ok
          THEN /\ co' = [co EXCEPT ![cwd] = Clean(Master, tip[Master])]
               /\ log' = Append(log, "checkout_base")
               /\ pc' = "close_delete" /\ UNCHANGED status
          ELSE Raise("UserWarning") /\ UNCHANGED <<co, log>>
    /\ UNCHANGED <<options, workDirExists, treeish, chdirFile, origDirFile, branches,
                   tip, github, shellDir, cmd, cwd, loc, nav>>

\* (mutant) the branch is reported deleted and kept
CloseDeleteBranchKept ==
    /\ pc = "close_delete"
    /\ log' = Append(log, "delete_branch")
    /\ Return
    /\ UNCHANGED <<options, workDirExists, treeish, chdirFile, origDirFile, co,
                   branches, tip, github, shellDir, cmd, cwd, loc, nav>>

\* command_close: git branch -D <branch_name>
CloseDeleteBranch ==
    /\ pc = "close_delete"
    /\ \E ok \in (IF loc.branch_name \in branches THEN BOOLEAN ELSE {FALSE}) :
          IF ok
          THEN /\ branches' = branches \ {loc.branch_name}
               /\ log' = Append(log, "delete_branch")
               /\ Return
          ELSE Raise("UserWarning") /\ UNCHANGED <<branches, log>>
    /\ UNCHANGED <<options, workDirExists, treeish, chdirFile, origDirFile, co,
                   tip, github, shellDir, cmd, cwd, loc, nav>>

---------------------------------------------------------------------------
(* fetch                                                                   *)

\* gitpr fetch <pull request ID>, with the update-after-fetch setting of
\* this invocation (fetch-auto-update, -u, -U)
StartFetch ==
    /\ pc = "idle"
    /\ \E n \in IDs, auto_update \in BOOLEAN :
          loc' = [NoLoc EXCEPT !.pull_request_ID = n, !.auto_update = auto_update]
    /\ cmd' = "fetch" /\ pc' = "fetch" /\ status' = "running"
    /\ UNCHANGED <<options, workDirExists, treeish, chdirFile, origDirFile, co,
                   branches, tip, github, shellDir, cwd, log, nav>>

\* command_fetch: the request is read from the hosting service
FetchGetPullRequest ==
    /\ pc = "fetch"
    /\ \E apiOk \in BOOLEAN :
          IF apiOk
          THEN pc' = "fetch_pull_request" /\ UNCHANGED status
          ELSE Raise("UserWarning")
    /\ UNCHANGED <<options, workDirExists, treeish, chdirFile, origDirFile, co,
                   branches, tip, github, shellDir, cmd, cwd, loc, log, nav>>

\* git fetch <url> <ref>:<branch> can succeed when the local branch does not
\* exist or is still at the fetched head (otherwise it is not a fast-forward)
DirectFetchOutcomes(branch_name) ==
    IF branch_name \notin branches \/ tip[branch_name] = "fetched" THEN BOOLEAN ELSE {FALSE}

\* (mutant) the reference is reported whether or not it is there
ShowRefAlways(branch_name) == TRUE

\* git show-ref --verify refs/heads/<branch>
ShowRef(branch_name) == branch_name \in branches

\* (mutant) the file of every request is removed
RemoveTreeishAll(id) == [n \in DOMAIN treeish |-> NoText]

\* os.remove of /tmp/git-pull-request-treeish-<id>; a missing file is ignored
RemoveTreeish(id) == [n \in DOMAIN treeish |-> IF n = id THEN NoText ELSE treeish[n]]

\* (mutant) the fallback result is not looked at
FetchSucceedsAlways(direct, branch_name) == TRUE

\* fetch_pull_request: ret of the direct fetch, replaced by the one of the
\* fallback when the direct fetch failed
FetchSucceeds(direct, branch_name) == direct \/ ShowRef(branch_name)

\* fetch_pull_request
fetch_pull_request ==
    /\ pc = "fetch_pull_request"
    /\ LET branch_name == build_branch_name(options.prefix, Request(loc.pull_request_ID)) IN
       \E direct \in DirectFetchOutcomes(branch_name) :
          IF FetchSucceeds(direct, branch_name)
          THEN /\ branches' = IF direct THEN branches \cup {branch_name} ELSE branches
               /\ tip' = IF direct THEN [tip EXCEPT ![branch_name] = "fetched"] ELSE tip
               /\ treeish' = RemoveTreeish(loc.pull_request_ID)
               /\ loc' = [loc EXCEPT !.branch_name = branch_name]
               /\ log' = log \o <<IF direct THEN "fetch_direct" ELSE "fetch_fallback",
                                  "remove_treeish">>
               /\ pc' = "fetch_done" /\ UNCHANGED status
          ELSE /\ Raise("UserWarning")
               /\ log' = log \o <<"fetch_direct_failed", "show_ref_failed">>
               /\ UNCHANGED <<branches, tip, treeish, loc>>
    /\ UNCHANGED <<options, workDirExists, chdirFile, origDirFile, co, github,
                   shellDir, cmd, cwd, nav>>

\* (mutant) the update after the fetch is never run
FetchChainNoUpdate ==
    /\ pc = "fetch_done"
    /\ \E auto_checkout \in BOOLEAN :
          IF auto_checkout
          THEN \E ok \in (IF co[cwd].state = "clean" THEN BOOLEAN ELSE {FALSE}) :
                  IF ok
                  THEN /\ co' = [co EXCEPT ![cwd] = Clean(loc.branch_name, tip[loc.branch_name])]
                       /\ log' = Append(log, "fetch_checkout")
                       /\ Return
                  ELSE /\ Raise("UserWarning")
                       /\ log' = Append(log, "fetch_checkout_failed")
                       /\ UNCHANGED co
          ELSE Return /\ UNCHANGED <<co, log>>
    /\ UNCHANGED <<options, workDirExists, treeish, chdirFile, origDirFile, branches,
                   tip, github, shellDir, cmd, cwd, loc, nav>>

\* command_fetch after fetch_pull_request: update_branch when the update is
\* asked for, else git checkout <branch> when fetch-auto-checkout is set (git
\* refuses to leave a checkout with a stopped merge or rebase)
FetchChain ==
    /\ pc = "fetch_done"
    /\ IF loc.auto_update
       THEN pc' = "update_branch" /\ UNCHANGED <<co, log, status>>
       ELSE \E auto_checkout \in BOOLEAN :
               IF auto_checkout
               THEN \E ok \in (IF co[cwd].state = "clean" THEN BOOLEAN ELSE {FALSE}) :
                       IF ok
                       THEN /\ co' = [co EXCEPT ![cwd] = Clean(loc.branch_name, tip[loc.branch_name])]
                            /\ log' = Append(log, "fetch_checkout")
                            /\ Return
                       ELSE /\ Raise("UserWarning")
                            /\ log' = Append(log, "fetch_checkout_failed")
                            /\ UNCHANGED co
               ELSE Return /\ UNCHANGED <<co, log>>
    /\ UNCHANGED <<options, workDirExists, treeish, chdirFile, origDirFile, branches,
                   tip, github, shellDir, cmd, cwd, loc, nav>>

---------------------------------------------------------------------------
(* merge                                                                   *)

\* gitpr merge [<comment>], with the merge-auto-close setting of this
\* invocation
StartMerge ==
    /\ pc = "idle"
    /\ \E comment \in {NoText, Lgtm}, auto_close \in BOOLEAN :
          loc' = [NoLoc EXCEPT !.comment = comment, !.auto_close = auto_close]
    /\ cmd' = "merge" /\ pc' = "merge" /\ status' = "running"
    /\ UNCHANGED <<options, workDirExists, treeish, chdirFile, origDirFile, co,
                   branches, tip, github, shellDir, cwd, log, nav>>

\* command_merge: the current branch and its request id
MergeResolve ==
    /\ pc = "merge"
    /\ LET r == ResolveCurrent(options.prefix, CurrentBranch(cwd)) IN
       IF r.exc # None
       THEN Raise(r.exc) /\ UNCHANGED loc
       ELSE /\ loc' = [loc EXCEPT !.branch_name = CurrentBranch(cwd),
                                  !.pull_request_ID = r.id]
            /\ pc' = "merge_checkout" /\ UNCHANGED status
    /\ UNCHANGED <<options, workDirExists, treeish, chdirFile, origDirFile, co,
                   branches, tip, github, shellDir, cmd, cwd, log, nav>>

\* command_merge: git checkout <update-branch>; git refuses to leave a
\* checkout with a stopped merge or rebase
MergeCheckout ==
    /\ pc = "merge_checkout"
    /\ \E ok \in (IF co[cwd].state = "clean" THEN BOOLEAN ELSE {FALSE}) :
          IF ok
          THEN /\ co' = [co EXCEPT ![cwd] = Clean(Master, tip[Master])]
               /\ log' = Append(log, "merge_checkout")
               /\ pc' = "merge_branch" /\ UNCHANGED status
          ELSE /\ Raise("UserWarning")
               /\ log' = Append(log, "merge_checkout_failed")
               /\ UNCHANGED co
    /\ UNCHANGED <<options, workDirExists, treeish, chdirFile, origDirFile, branches,
                   tip, github, shellDir, cmd, cwd, loc, nav>>

\* command_merge: git merge <branch_name>; a conflict stays in the checkout
MergeBranch ==
    /\ pc = "merge_branch"
    /\ \E ok \in (IF loc.branch_name \in branches THEN BOOLEAN ELSE {FALSE}) :
          IF ok
          THEN /\ tip' = [tip EXCEPT ![Master] = "updated"]
               /\ co' = [co EXCEPT ![cwd] = Clean(Master, "updated")]
               /\ log' = Append(log, "merge_ok")
               /\ pc' = "merge_delete" /\ UNCHANGED status
          ELSE /\ co' = [co EXCEPT ![cwd] = [@ EXCEPT !.state = "conflict", !.op = "merge"]]
               /\ log' = Append(log, "merge_conflict")
               /\ Raise("UserWarning")
               /\ UNCHANGED tip
    /\ UNCHANGED <<options, workDirExists, treeish, chdirFile, origDirFile, branches,
                   github, shellDir, cmd, cwd, loc, nav>>

\* (mutant) the request is closed whatever merge-auto-close says
AfterMergeAlwaysClose == "close_pull_request"

\* command_merge: close_pull_request only if merge-auto-close is set
AfterMerge == IF loc.auto_close THEN "close_pull_request" ELSE "done"

\* command_merge: git branch -D <branch_name>, then the close if configured
MergeDeleteBranch ==
    /\ pc = "merge_delete"
    /\ \E ok \in (IF loc.branch_name \in branches THEN BOOLEAN ELSE {FALSE}) :
          IF ok
          THEN /\ branches' = branches \ {loc.branch_name}
               /\ log' = Append(log, "merge_delete")
               /\ pc' = AfterMerge
               /\ status' = IF AfterMerge = "done" THEN "ok" ELSE status
          ELSE /\ Raise("UserWarning")
               /\ log' = Append(log, "merge_delete_failed")
               /\ UNCHANGED branches
    /\ UNCHANGED <<options, workDirExists, treeish, chdirFile, origDirFile, co,
                   tip, github, shellDir, cmd, cwd, loc, nav>>

---------------------------------------------------------------------------
(* The developer between two invocations                                   *)

\* the process ends: its local variables and its current directory are gone
Exit ==
    /\ pc = "done"
    /\ cmd' = "none" /\ pc' = "idle" /\ loc' = NoLoc /\ log' = <<>> /\ status' = "none"
    /\ cwd' = shellDir
    /\ github' = <<>>
    /\ UNCHANGED <<options, workDirExists, treeish, chdirFile, origDirFile, co,
                   branches, tip, shellDir, nav>>

\* the caller of the script moves to the directory named in
\* /tmp/git-pull-request-chdir
ShellFollow ==
    /\ pc = "idle"
    /\ chdirFile # None /\ chdirFile # shellDir
    /\ shellDir' = chdirFile
    /\ cwd' = chdirFile
    /\ UNCHANGED <<options, workDirExists, treeish, chdirFile, origDirFile, co,
                   branches, tip, github, cmd, pc, loc, log, status, nav>>

\* the developer resolves the conflicts of the stopped merge or rebase in the
\* directory of the shell and stages them
ResolveConflicts ==
    /\ pc = "idle"
    /\ co[shellDir].state = "conflict"
    /\ co' = [co EXCEPT ![shellDir] = [@ EXCEPT !.state = "resolved"]]
    /\ UNCHANGED <<options, workDirExists, treeish, chdirFile, origDirFile,
                   branches, tip, github, shellDir, cmd, pc, cwd, loc, log,
                   status, nav>>

Next ==
    \/ StartUpdate \/ UpdateCheckContext
    \/ UpdateEnterWorkDir \/ UpdateReset \/ UpdateCheckout \/ UpdateTreeish
    \/ UpdateOperation \/ CompleteUpdateBase \/ CompleteUpdateSwitch
    \/ CompleteUpdateSync
    \/ StartContinue \/ ContinueOperation \/ ContinueBranchName
    \/ StartClose \/ CloseResolve \/ close_pull_request \/ ClosePostComment
    \/ CloseIssue \/ CloseCheckout \/ CloseDeleteBranch
    \/ Exit \/ ShellFollow \/ ResolveConflicts

Spec == Init /\ [][Next]_vars

\* the statements of a running invocation: the script is sequential, and
\* every git command and every request to the hosting service returns
Step ==
    \/ UpdateCheckContext \/ UpdateEnterWorkDir \/ UpdateReset \/ UpdateCheckout
    \/ UpdateTreeish \/ UpdateOperation \/ CompleteUpdateBase
    \/ CompleteUpdateSwitch \/ CompleteUpdateSync
    \/ ContinueOperation \/ ContinueBranchName
    \/ CloseResolve \/ close_pull_request \/ ClosePostComment \/ CloseIssue
    \/ CloseCheckout \/ CloseDeleteBranch

\* a started invocation runs to its end
FairSpec == Spec /\ WF_vars(Step)

---------------------------------------------------------------------------
(* The update cycle with a work directory whose record of the original     *)
(* directory does not survive: between two invocations the file            *)
(* <work-dir>/.git/original_dir_path is removed or emptied.                *)

LoseOriginalDirRecord ==
    /\ pc = "idle"
    /\ origDirFile \notin {None, ""}
    /\ origDirFile' \in {None, ""}
    /\ UNCHANGED <<options, workDirExists, treeish, chdirFile, co, branches, tip,
                   github, shellDir, cmd, pc, cwd, loc, log, status, nav>>

RecordInit == Init /\ options.workDir # None /\ workDirExists

RecordNext == Next \/ LoseOriginalDirRecord

RecordSpec == RecordInit /\ [][RecordNext]_vars

---------------------------------------------------------------------------
(* Fetching: the update cycle together with fetch.  The developer starts   *)
(* on the update branch; a request may or may not have been fetched yet.   *)

FetchInit ==
    /\ options \in [prefix : {PullRequestLit},
                    method : {"merge", "rebase"},
                    workDir : {None, "work"},
                    defaultComment : {NoText}]
    /\ workDirExists \in (IF options.workDir = None THEN {FALSE} ELSE BOOLEAN)
    /\ treeish = [n \in IDs |-> NoText]
    /\ chdirFile = None
    /\ origDirFile = None
    /\ \E fetched \in SUBSET PrBranches : branches = {Master, Topic} \cup fetched
    /\ tip = [b \in {Master, Topic} \cup PrBranches |-> "fetched"]
    /\ co = [d \in Dirs |-> Clean(Master, "fetched")]
    /\ github = <<>>
    /\ shellDir = "orig"
    /\ cmd = "none"
    /\ pc = "idle"
    /\ cwd = "orig"
    /\ loc = NoLoc
    /\ log = <<>>
    /\ status = "none"
    /\ nav = NavIdle

FetchNext ==
    \/ StartFetch \/ FetchGetPullRequest \/ fetch_pull_request \/ FetchChain
    \/ StartUpdate \/ UpdateCheckContext
    \/ UpdateEnterWorkDir \/ UpdateReset \/ UpdateCheckout \/ UpdateTreeish
    \/ UpdateOperation \/ CompleteUpdateBase \/ CompleteUpdateSwitch
    \/ CompleteUpdateSync
    \/ StartContinue \/ ContinueOperation \/ ContinueBranchName
    \/ Exit \/ ShellFollow \/ ResolveConflicts

FetchSpec == FetchInit /\ [][FetchNext]_vars

---------------------------------------------------------------------------
(* Reviewing: fetch, merge and close, without local updates.               *)

MergeNext ==
    \/ StartFetch \/ FetchGetPullRequest \/ fetch_pull_request \/ FetchChain
    \/ UpdateCheckContext
    \/ UpdateEnterWorkDir \/ UpdateReset \/ UpdateCheckout \/ UpdateTreeish
    \/ UpdateOperation \/ CompleteUpdateBase \/ CompleteUpdateSwitch
    \/ CompleteUpdateSync
    \/ StartMerge \/ MergeResolve \/ MergeCheckout \/ MergeBranch
    \/ MergeDeleteBranch
    \/ StartClose \/ CloseResolve \/ close_pull_request \/ ClosePostComment
    \/ CloseIssue \/ CloseCheckout \/ CloseDeleteBranch
    \/ Exit

MergeSpec == FetchInit /\ [][MergeNext]_vars

---------------------------------------------------------------------------
(* The naming functions on their own: a request and a prefix are drawn, the  *)
(* branch name is built and resolved back; any name is resolved.            *)

MaxNumber == 12

Prefixes == {PullRequestLit, PrefixPr, PrefixPulls, PrefixPull2}

Refs == {RefPlain, RefKey, RefShortKey, RefTwoKeys}

Titles == {TitlePlain, TitleSup, TitleNearSup}

\* names that are no pull request branch names, and two that are
Names == {Master, Topic, BadPr, PullRequestLit, PrefixPr \o Hyphen, RefKey,
          PullRequestLit \o Hyphen \o IntToStr(MaxNumber),
          PrefixPr \o Hyphen \o IntToStr(MaxNumber) \o Hyphen \o SupLit}

NamingInit ==
    /\ options = [prefix |-> PullRequestLit, method |-> "merge", workDir |-> None,
                  defaultComment |-> NoText]
    /\ workDirExists = FALSE
    /\ treeish = [n \in IDs |-> NoText]
    /\ chdirFile = None
    /\ origDirFile = None
    /\ branches = {Master}
    /\ tip = [b \in branches |-> "fetched"]
    /\ co = [d \in Dirs |-> Clean(Master, "fetched")]
    /\ github = <<>>
    /\ shellDir = "orig"
    /\ cmd = "none"
    /\ pc = "idle"
    /\ cwd = "orig"
    /\ loc = NoLoc
    /\ log = <<>>
    /\ status = "none"
    /\ \E prefix \in Prefixes, number \in 1..MaxNumber, ref \in Refs, title \in Titles,
          name \in Names :
          nav = [phase |-> "input", prefix |-> prefix,
                 request |-> [number |-> number, ref |-> ref, title |-> title],
                 name |-> name, via |-> "none",
                 result |-> [exc |-> None, id |-> 0]]

\* fetch: the branch name of the request
NavBuild ==
    /\ nav.phase = "input"
    /\ nav' = [nav EXCEPT !.phase = "built",
                          !.name = build_branch_name(nav.prefix, nav.request)]
    /\ UNCHANGED lifeVars

\* a later command on that branch: its request id
NavResolveBuilt ==
    /\ nav.phase = "built"
    /\ nav' = [nav EXCEPT !.phase = "roundtrip", !.via = "given",
                          !.result = get_pull_request_ID(nav.prefix, nav.name)]
    /\ UNCHANGED lifeVars

\* update <name>: update_branch resolves the id of the name it is given
NavResolveGiven ==
    /\ nav.phase = "input"
    /\ nav' = [nav EXCEPT !.phase = "resolved", !.via = "given",
                          !.result = get_pull_request_ID(nav.prefix, nav.name)]
    /\ UNCHANGED lifeVars

\* close, merge, pull, open: the id of the current branch
NavResolveCurrent ==
    /\ nav.phase = "input"
    /\ nav' = [nav EXCEPT !.phase = "resolved", !.via = "current",
                          !.result = ResolveCurrent(nav.prefix, nav.name)]
    /\ UNCHANGED lifeVars

NamingNext == NavBuild \/ NavResolveBuilt \/ NavResolveGiven \/ NavResolveCurrent

NamingSpec == NamingInit /\ [][NamingNext]_vars

---------------------------------------------------------------------------
(* The title of a submitted pull request: a branch name, the title given   *)
(* on the command line (or none), the tags and their delimiters are drawn, *)
(* and the title is built.                                                 *)

Space == <<" ">>
TagWip == <<"W", "I", "P">>
TagUi == <<"u", "i">>
NameSupInside == <<"p", "r", "-", "7", "-", "s", "u", "p", "-", "f", "i", "x">>
NameKeySup == <<"A", "B", "C", "D", "-", "4", "2", "-", "s", "u", "p">>

\* (mutant) -sup anywhere in the name
SupAnywhere(branch_name) == Contains(branch_name, Hyphen \o SupLit)

\* re.search("-sup$", branch_name); a branch name has no line break
SupAtEnd(branch_name) == EndsWith(branch_name, Hyphen \o SupLit)

RECURSIVE TitleWithTags(_, _, _, _)
\* the loop over title_tags
TitleWithTags(title, title_tags, tag_prefix, tag_suffix) ==
    IF title_tags = <<>> THEN title
    ELSE TitleWithTags(title \o Space \o tag_prefix \o Head(title_tags) \o tag_suffix,
                       Tail(title_tags), tag_prefix, tag_suffix)

build_pull_request_title(branch_name, pull_title, title_tags, tag_prefix, tag_suffix) ==
    LET named == IF IssueKey(branch_name) # NoText /\ IssueKey(branch_name) # <<>>
                 THEN IssueKey(branch_name) ELSE branch_name
        title == IF pull_title = NoText \/ pull_title = <<>>
                 THEN IF SupAtEnd(branch_name)
                      THEN named \o Space \o TechSupportLit ELSE named
                 ELSE pull_title
    IN TitleWithTags(title, title_tags, tag_prefix, tag_suffix)

TitleBranchNames ==
    {build_branch_name(prefix, [number |-> number, ref |-> ref, title |-> title]) :
        prefix \in {PullRequestLit, PrefixPr}, number \in {1, MaxNumber},
        ref \in Refs, title \in {TitlePlain, TitleSup}}
    \cup {Master, Topic, RefKey, RefTwoKeys, NameSupInside, NameKeySup}

TitleTags == {<<>>, <<TagWip>>, <<TagWip, TagUi>>, <<TagUi, TagWip>>, <<TagUi, <<>>, TagUi>>}

TitleInit ==
    /\ options = [prefix |-> PullRequestLit, method |-> "merge", workDir |-> None,
                  defaultComment |-> NoText]
    /\ workDirExists = FALSE
    /\ treeish = [n \in IDs |-> NoText]
    /\ chdirFile = None
    /\ origDirFile = None
    /\ branches = {Master}
    /\ tip = [b \in branches |-> "fetched"]
    /\ co = [d \in Dirs |-> Clean(Master, "fetched")]
    /\ github = <<>>
    /\ shellDir = "orig"
    /\ cmd = "none"
    /\ pc = "idle"
    /\ cwd = "orig"
    /\ loc = NoLoc
    /\ log = <<>>
    /\ status = "none"
    /\ \E branch_name \in TitleBranchNames, pull_title \in {NoText, <<>>, TitlePlain},
          title_tags \in TitleTags,
          delimiters \in {<<(<<"[">>), (<<"]">>)>>, <<(<<>>), (<<>>)>>, <<(<<"<", "<">>), (<<">">>)>>} :
          nav = [phase |-> "input", branch_name |-> branch_name,
                 pull_title |-> pull_title, title_tags |-> title_tags,
                 tag_prefix |-> delimiters[1], tag_suffix |-> delimiters[2],
                 title |-> NoText]

\* command_submit: the title of the pull request to open
NavTitle ==
    /\ nav.phase = "input"
    /\ nav' = [nav EXCEPT !.phase = "titled",
                          !.title = build_pull_request_title(nav.branch_name, nav.pull_title,
                                        nav.title_tags, nav.tag_prefix, nav.tag_suffix)]
    /\ UNCHANGED lifeVars

TitleNext == NavTitle

TitleSpec == TitleInit /\ [][TitleNext]_vars

---------------------------------------------------------------------------
(* The dispatch of update on its own: one invocation of update, with the   *)
(* argument it was given kept in nav.                                      *)

DispatchInit ==
    /\ options \in [prefix : {PullRequestLit},
                    method : {"merge", "rebase"},
                    workDir : {None, "work"},
                    defaultComment : {NoText}]
    /\ workDirExists \in (IF options.workDir = None THEN {FALSE} ELSE BOOLEAN)
    /\ treeish = [n \in IDs |-> NoText]
    /\ chdirFile = None
    /\ origDirFile = None
    /\ branches = {Master, Topic} \cup PrBranches
    /\ tip = [b \in branches |-> "fetched"]
    /\ \E b \in branches :
          co = [d \in Dirs |-> IF d = "orig" THEN Clean(b, "fetched") ELSE Clean(Master, "fetched")]
    /\ github = <<>>
    /\ shellDir = "orig"
    /\ cmd = "none"
    /\ pc = "idle"
    /\ cwd = "orig"
    /\ loc = NoLoc
    /\ log = <<>>
    /\ status = "none"
    /\ \E target \in UpdateTargets \cup {NoText} :
          nav = [phase |-> "dispatch", target |-> target]

\* gitpr update [<pull request ID or branch name>]
DispatchUpdate ==
    /\ pc = "idle"
    /\ nav.phase = "dispatch"
    /\ command_update(nav.target)
    /\ cmd' = "update"
    /\ nav' = [nav EXCEPT !.phase = "dispatched"]
    /\ UNCHANGED <<options, workDirExists, treeish, chdirFile, origDirFile, co,
                   branches, tip, github, shellDir, cwd, log>>

DispatchNext ==
    \/ DispatchUpdate \/ UpdateCheckContext
    \/ UpdateEnterWorkDir \/ UpdateReset \/ UpdateCheckout \/ UpdateTreeish
    \/ UpdateOperation \/ CompleteUpdateBase \/ CompleteUpdateSwitch
    \/ CompleteUpdateSync
    \/ Exit

DispatchSpec == DispatchInit /\ [][DispatchNext]_vars

---------------------------------------------------------------------------
(* Properties                                                              *)

InLog(e) == \E i \in 1..Len(log) : log[i] = e

\* the directory is the configured, existing work directory
InsideWorkDir(dir) == options.workDir # None /\ workDirExists /\ dir = options.workDir

Marker(id) == IF id \in DOMAIN treeish THEN treeish[id] ELSE NoText

\* C1: whenever Update is at or past its merge/rebase, the commit range of the
\* branch's request id is stored, with the value this Update derived; so it
\* is there after an Update that stopped on a conflict.
C1_MarkerStoredBeforeUpdateOperation ==
    (pc = "update_operation" \/ InLog("update_ok") \/ InLog("update_conflict"))
        => /\ get_pull_request_ID(options.prefix, loc.branch_name).exc = None
           /\ loc.pull_request_ID = get_pull_request_ID(options.prefix, loc.branch_name).id
           /\ Marker(loc.pull_request_ID) # NoText
           /\ Marker(loc.pull_request_ID) = loc.branch_treeish
           /\ InLog("put_treeish")

C1_Witness ==
    /\ pc = "done" /\ cmd = "update" /\ status = "UserWarning"
    /\ InLog("update_conflict")
    /\ co[cwd].state = "conflict"
    /\ Marker(loc.pull_request_ID) # NoText

\* C2 (as claimed): once Close has read a stored commit range for request n,
\* no commit range is stored for n any more.
C2_MarkerConsumedByClose ==
    (pc \in {"post_comment", "close_issue", "close_checkout", "close_delete", "done"}
       /\ InLog("read_treeish"))
        => Marker(loc.pull_request_ID) = NoText

\* C3 (as claimed): whenever posting the close comment failed, the close call
\* was still issued for that request.
C3_CloseIssuedAfterFailedComment ==
    (pc = "done" /\ InLog("post_comment_failed"))
        => (InLog("close_call") \/ InLog("close_call_failed"))

\* C4 (as claimed): the request id resolved from the branch name built for a
\* request is the request's number, for every prefix.
C4_ResolveInvertsBuild ==
    nav.phase = "roundtrip"
        => (nav.result.exc = None /\ nav.result.id = nav.request.number)

\* the name starts with the prefix or "pull-request", a hyphen and digits
NameMatches(prefix, name) ==
    \E alt \in {PullRequestLit, prefix} :
        /\ Len(name) > Len(alt) + 1
        /\ SubSeq(name, 1, Len(alt)) = alt
        /\ name[Len(alt) + 1] = "-"
        /\ name[Len(alt) + 2] \in Digit

\* C5 (as claimed): resolving the request id of a name that does not match
\* fails with UserWarning, whichever command resolves it.
C5_NotAPullRequestBranchIsUserWarning ==
    (nav.phase = "resolved" /\ ~NameMatches(nav.prefix, nav.name))
        => nav.result.exc = "UserWarning"

\* C6 (as claimed): an Update that finds itself inside the work directory
\* ends at once with UserWarning: the step changes no file, no checkout, no branch and no
\* directory, and it is the only thing the invocation did.
C6_UpdateInsideWorkDirRejected ==
    [][(pc = "update_branch" /\ InsideWorkDir(cwd))
         => /\ pc' = "done" /\ status' = "UserWarning"
            /\ log' = Append(log, "invalid_context")
            /\ cmd = "update" => log = <<>>
            /\ UNCHANGED <<treeish, chdirFile, origDirFile, co, branches, tip,
                           github, shellDir, cwd>>]_vars

\* the part of C6 that the code does: such an Update ends at its first step
\* and changes no file, no checkout, no branch and no directory
C6_RefusalChangesNothing ==
    [][(pc = "update_branch" /\ InsideWorkDir(cwd))
         => /\ pc' = "done" /\ status' # "ok"
            /\ UNCHANGED <<treeish, chdirFile, origDirFile, co, branches, tip,
                           github, shellDir, cwd>>]_vars

C6_Witness ==
    /\ pc = "done" /\ cmd = "update" /\ status = "UserWarning"
    /\ InLog("invalid_context")
    /\ InsideWorkDir(cwd)
    /\ co[cwd].state = "conflict"

\* an invocation of the update cycle: update, or continue-update run inside
\* the work directory
UpdateCycle == cmd = "update" \/ (cmd = "continue" /\ InsideWorkDir(shellDir))

\* C7: with a work directory, no step of Update or of ContinueUpdate changes
\* the primary checkout (its branch, its tree, its pending operation),
\* except the last step of complete_update, after the merge/rebase (or its
\* continuation) has succeeded.
C7_PrimaryCheckoutUntouched ==
    [][(options.workDir # None /\ workDirExists /\ UpdateCycle /\ co'["orig"] # co["orig"])
         => /\ pc = "complete_sync"
            /\ InLog("update_ok") \/ InLog("continue_ok")
            /\ InLog("leave_work_dir")]_vars

C7_Witness ==
    /\ pc = "done" /\ cmd = "continue" /\ status = "ok"
    /\ InsideWorkDir(shellDir)
    /\ InLog("continue_ok") /\ InLog("sync_checkout")
    /\ co["orig"].version = "updated"

\* C8: an Update whose merge/rebase fails ends with the stopped operation
\* still in the checkout and a non-zero exit status; a ContinueUpdate whose
\* commit / rebase --continue fails ends with UserWarning and changes
\* nothing: checkouts, commit ranges, directory files, directories, branches.
C8_ConflictKeptAndContinueBlocked ==
    /\ [](pc = "done" /\ InLog("update_conflict")
            => /\ co[cwd].state = "conflict" /\ co[cwd].op = options.method
               /\ co[cwd].branch = loc.branch_name
               /\ status = "UserWarning" /\ ExitCode # 0)
    /\ [][(pc = "continue" /\ pc' = "done" /\ status' # "ok")
            => /\ status' = "UserWarning"
               /\ log' = <<"still_blocked">>
               /\ UNCHANGED <<treeish, chdirFile, origDirFile, co, branches, tip,
                              shellDir, cwd>>]_vars

C8_Witness ==
    /\ pc = "done" /\ cmd = "continue" /\ status = "UserWarning"
    /\ InLog("still_blocked")
    /\ InsideWorkDir(cwd)
    /\ co[cwd].state = "conflict"
    /\ chdirFile = options.workDir
    /\ \E n \in IDs : Marker(n) # NoText

NoPrimitiveFailed ==
    ~InLog("checkout_base_failed") /\ ~InLog("sync_failed") /\ ~InLog("still_blocked")

\* A ContinueUpdate whose commit / rebase --continue and later commands
\* all succeed ends with status ok, outside the work directory, on the
\* updated branch with nothing pending; from inside the work directory it
\* went through the switch back and the directory file names the original
\* directory.
C9_Final ==
    (pc = "done" /\ cmd = "continue" /\ NoPrimitiveFailed)
        => /\ status = "ok"
           /\ InLog("continue_ok")
           /\ ~InsideWorkDir(cwd)
           /\ co[cwd].branch = loc.branch_name
           /\ co[cwd].version = "updated"
           /\ co[cwd].state = "clean" /\ co[cwd].op = "none"
           /\ InsideWorkDir(shellDir)
                => /\ InLog("leave_work_dir")
                   /\ chdirFile = origDirFile /\ cwd = origDirFile
                   /\ co[shellDir].state = "clean"

\* C9: every ContinueUpdate that is started ends, and one whose commands all
\* succeeded ends as C9_Final says.
C9_ContinueReachesIdle ==
    /\ []C9_Final
    /\ (cmd = "continue" /\ pc = "continue") ~> (cmd = "continue" /\ pc = "done")

C9_Witness ==
    /\ pc = "done" /\ cmd = "continue" /\ status = "ok"
    /\ InsideWorkDir(shellDir)
    /\ options.method = "rebase"
    /\ cwd = "orig"

\* C10: an Update with merge-base = head, update method merge, whose merge
\* and later commands succeed ends with status ok, the stored commit range
\* being the first ten characters of the head commit id and nothing else,
\* and no conflict was met.
C10_MergeBaseIsHead ==
    (pc = "done" /\ cmd = "update" /\ options.method = "merge"
       /\ InLog("update_ok") /\ NoPrimitiveFailed
       /\ loc.parent_commit = loc.head_commit)
        => /\ status = "ok"
           /\ Marker(loc.pull_request_ID) = SubSeq(loc.head_commit, 1, AbbrevLen)
           /\ Len(loc.head_commit) > AbbrevLen
           /\ ~InLog("update_conflict")
           /\ co[cwd].state = "clean"
           /\ ~InsideWorkDir(cwd)

C10_Witness ==
    /\ pc = "done" /\ cmd = "update" /\ options.method = "merge" /\ status = "ok"
    /\ InLog("update_ok")
    /\ loc.parent_commit = loc.head_commit
    /\ InsideWorkDir("work") /\ InLog("leave_work_dir")

\* C11 (as claimed): an Update that does not end successfully has written no
\* commit range.
C11_MarkerOnlyAfterSuccessfulUpdate ==
    (pc = "done" /\ cmd = "update" /\ status # "ok") => ~InLog("put_treeish")

\* C11 (amended): the commit range is written by the step of Update that
\* comes just before the merge/rebase, whatever the merge/rebase then does.
\* No other step of Update or ContinueUpdate changes a stored range; an
\* Update that stopped on a conflict has written the range of its request and
\* it is still stored; an Update that wrote none ended before the
\* merge/rebase, with a failure.
C11_MarkerWrittenBeforeOperation ==
    /\ [][(cmd \in {"update", "continue"} /\ treeish' # treeish)
            => /\ pc = "treeish" /\ pc' = "update_operation"
               /\ log' = Append(log, "put_treeish")
               /\ ~InLog("update_ok") /\ ~InLog("update_conflict")]_vars
    /\ []((pc = "done" /\ cmd = "update" /\ InLog("update_conflict"))
            => /\ InLog("put_treeish")
               /\ Marker(loc.pull_request_ID) = loc.branch_treeish
               /\ loc.branch_treeish # NoText)
    /\ []((pc = "done" /\ cmd = "update" /\ ~InLog("put_treeish"))
            => /\ ~InLog("update_ok") /\ ~InLog("update_conflict")
               /\ status # "ok")

C11_Witness ==
    /\ pc = "done" /\ cmd = "update" /\ status = "UserWarning"
    /\ options.method = "rebase"
    /\ InLog("update_conflict") /\ InLog("put_treeish")
    /\ loc.parent_commit # loc.head_commit
    /\ Marker(loc.pull_request_ID) = loc.branch_treeish

\* C12: the step of fetch_pull_request that succeeds for request n leaves no
\* commit range stored for n and leaves the stored range of every other
\* request as it was.
C12_FetchDeletesOwnMarker ==
    [][(pc = "fetch_pull_request" /\ pc' = "fetch_done")
         => /\ Marker(loc.pull_request_ID)' = NoText
            /\ \A m \in DOMAIN treeish :
                  m # loc.pull_request_ID => treeish'[m] = treeish[m]
            /\ DOMAIN treeish' = DOMAIN treeish]_vars

\* a fetch of a request whose branch was updated before (so that its range
\* was stored) while the range of another request is stored
C12_Witness ==
    /\ pc = "fetch_done" /\ cmd = "fetch"
    /\ InLog("remove_treeish")
    /\ tip[loc.branch_name] = "updated"
    /\ Marker(loc.pull_request_ID) = NoText
    /\ \E m \in IDs : m # loc.pull_request_ID /\ Marker(m) # NoText

\* C13: fetch_pull_request fails exactly when the branch was not there before
\* (the fallback check fails) and is not there afterwards (the direct fetch
\* failed).  The failure is UserWarning, it leaves every stored commit range
\* as it was and ends the invocation: nothing of Update runs, even if the
\* update after the fetch was asked for.  Otherwise the branch exists.
C13_FetchFailsIffBothFail ==
    /\ [][pc = "fetch_pull_request"
            => LET branch_name == build_branch_name(options.prefix,
                                                     Request(loc.pull_request_ID)) IN
               /\ (pc' = "done") <=> (branch_name \notin branches /\ branch_name \notin branches')
               /\ pc' = "done"
                    => /\ status' = "UserWarning"
                       /\ treeish' = treeish
                       /\ log' = log \o <<"fetch_direct_failed", "show_ref_failed">>
               /\ pc' # "done"
                    => /\ pc' = "fetch_done"
                       /\ branch_name \in branches'
                       /\ InLog("fetch_direct")' \/ branch_name \in branches]_vars
    /\ [](InLog("show_ref_failed")
            => /\ pc = "done" /\ cmd = "fetch" /\ status = "UserWarning"
               /\ log = <<"fetch_direct_failed", "show_ref_failed">>)

C13_Witness ==
    /\ pc = "done" /\ cmd = "fetch" /\ status = "UserWarning"
    /\ InLog("show_ref_failed")
    /\ loc.auto_update
    /\ Marker(loc.pull_request_ID) # NoText

MergeFailures == {"merge_checkout_failed", "merge_conflict", "merge_delete_failed",
                  "post_comment_failed", "close_call_failed"}

MergeSteps == <<"merge_checkout", "merge_ok", "merge_delete">>

MergeStepFailures == <<"merge_checkout_failed", "merge_conflict", "merge_delete_failed">>

\* C14: in a merge invocation the steps appear in the order checkout of the
\* update branch, merge, branch deletion, then the close (comment, close
\* call) and the close only if merge-auto-close is set; a failed step is the
\* last thing the invocation does and it ends with UserWarning; no step is
\* run twice; no request is sent to the hosting service when the checkout,
\* the merge or the branch deletion failed.
C14_MergeOrderAndAbort ==
    cmd = "merge"
      => /\ \A i \in 1..Len(log) :
               /\ i <= Len(MergeSteps) => log[i] \in {MergeSteps[i], MergeStepFailures[i]}
               /\ i > Len(MergeSteps)
                    => /\ loc.auto_close
                       /\ log[i] \in {"read_treeish", "post_comment", "post_comment_failed",
                                      "close_call", "close_call_failed"}
               /\ log[i] \in MergeFailures
                    => i = Len(log) /\ pc = "done" /\ status = "UserWarning"
               /\ \A j \in 1..Len(log) : log[j] = log[i] => j = i
         /\ InLog("close_call") /\ InLog("post_comment")
              => \E i, j \in 1..Len(log) : i < j /\ log[i] = "post_comment" /\ log[j] = "close_call"
         /\ github # <<>>
              => /\ loc.auto_close
                 /\ SubSeq(log, 1, Len(MergeSteps)) = MergeSteps
                 /\ loc.branch_name \notin branches
         /\ (InLog("merge_checkout_failed") \/ InLog("merge_conflict")
                \/ InLog("merge_delete_failed"))
              => github = <<>> /\ ~InLog("close_call")
         /\ (pc = "done" /\ status = "ok")
              => /\ SubSeq(log, 1, Len(MergeSteps)) = MergeSteps
                 /\ loc.auto_close <=> InLog("close_call")
                 /\ InLog("close_call") => github[Len(github)].call = "close"

C14_Witness ==
    /\ pc = "done" /\ cmd = "merge" /\ status = "UserWarning"
    /\ loc.auto_close
    /\ log = <<"merge_checkout", "merge_conflict">>
    /\ co[cwd].state = "conflict" /\ co[cwd].branch = Master
    /\ loc.branch_name \in branches
    /\ github = <<>>

\* the text Close is to post, from the comment given and the stored range
ComposedComment(comment, id) ==
    IF Marker(id) # NoText
    THEN (IF comment = NoText THEN <<>> ELSE comment) \o OriginalCommitsLit \o Marker(id)
    ELSE comment

\* the composition and the posting of C15: the comment is the given comment
\* followed by "\n\nOriginal commits: <range>" when a range is stored, the
\* given comment otherwise (no error); it is posted only if not empty, and a
\* close call of the invocation comes after its comment
C15_Composition ==
    /\ [][pc = "close_pull_request"
            => /\ loc'.comment = ComposedComment(loc.comment, loc.pull_request_ID)
               /\ pc' = "post_comment" /\ status' = status]_vars
    /\ [][pc = "post_comment"
            => /\ github' # github
                    => /\ loc.comment # NoText /\ loc.comment # <<>>
                       /\ github' = Append(github, [call |-> "comment",
                                                    id |-> loc.pull_request_ID,
                                                    body |-> loc.comment])
               /\ (loc.comment = NoText \/ loc.comment = <<>>)
                    => github' = github /\ pc' = "close_issue"]_vars
    /\ [](\A i, j \in 1..Len(github) :
              (github[i].call = "close" /\ github[j].call = "comment") => j < i)

\* C15 (as claimed): the composition and the posting as above, and the close
\* call is always issued once Close has composed its comment.
C15_CloseComposesPostsAndCloses ==
    /\ C15_Composition
    /\ []((pc = "done" /\ cmd = "close"
              /\ (InLog("read_treeish") \/ InLog("post_comment")
                     \/ InLog("post_comment_failed")))
            => (InLog("close_call") \/ InLog("close_call_failed")))

UpdateSteps == <<"enter_work_dir", "put_original_dir", "reset", "checkout", "put_treeish">>

\* C16: with a work directory, the steps of an Update come in the order
\* enter the work directory, reset/clean, checkout, commit-range write,
\* merge/rebase: the log of the Update is a prefix of that order up to the
\* first failure; the checkout finds the work directory clean; a failed
\* reset/clean or checkout ends the Update with UserWarning, no commit range
\* written and no merge/rebase run.
C16_WorkDirResetBeforeCheckout ==
    (cmd = "update" /\ get_work_dir # None /\ ~InLog("invalid_context"))
      => /\ \A i \in 1..Len(log) :
               /\ i <= Len(UpdateSteps)
                    => \/ log[i] = UpdateSteps[i]
                       \/ i = 3 /\ log[i] = "reset_failed"
                       \/ i = 4 /\ log[i] = "checkout_failed"
               /\ log[i] \in {"update_ok", "update_conflict"} => i = Len(UpdateSteps) + 1
               /\ log[i] \in {"reset_failed", "checkout_failed"}
                    => /\ i = Len(log) /\ pc = "done" /\ status = "UserWarning"
         /\ pc = "checkout" => /\ InLog("reset") /\ InsideWorkDir(cwd)
                                /\ co[cwd].state = "clean" /\ co[cwd].op = "none"
         /\ pc \in {"treeish", "update_operation"} => SubSeq(log, 1, 4) = SubSeq(UpdateSteps, 1, 4)
         /\ (InLog("reset_failed") \/ InLog("checkout_failed"))
              => /\ ~InLog("put_treeish")
                 /\ ~InLog("update_ok") /\ ~InLog("update_conflict")
                 /\ loc.branch_treeish = NoText

\* an Update after an earlier one had stopped on a conflict in the work
\* directory: the reset went through and the checkout failed
C16_Witness ==
    /\ pc = "done" /\ cmd = "update" /\ status = "UserWarning"
    /\ log = <<"enter_work_dir", "put_original_dir", "reset", "checkout_failed">>
    /\ InsideWorkDir(cwd)
    /\ co[cwd].state = "clean"
    /\ chdirFile = options.workDir

\* C17: complete_update inside the work directory.  Its first step checks
\* out the update branch in the work directory and neither changes
\* directory nor touches the original checkout; if that checkout fails the
\* invocation ends there with UserWarning.  Its second step moves to the
\* recorded original directory and changes no checkout.  Its third step, in
\* the original directory, is a hard reset + clean if the branch there is
\* already branch_name and a checkout of branch_name otherwise.  When it
\* ends well the current directory is the original one, outside the work
\* directory, on branch_name with nothing pending, and the work directory is
\* on the update branch.
C17_LeaveWorkDirectory ==
    /\ [][(pc = "complete_update" /\ in_work_dir(cwd))
            => /\ cwd' = cwd /\ chdirFile' = chdirFile
               /\ co'[origDirFile] = co[origDirFile]
               /\ \/ /\ pc' = "complete_switch"
                     /\ log' = Append(log, "checkout_base")
                     /\ co'[cwd].branch = Master /\ co'[cwd].state = "clean"
                  \/ /\ pc' = "done" /\ status' = "UserWarning"
                     /\ log' = Append(log, "checkout_base_failed")
                     /\ co' = co]_vars
    /\ [][(pc = "complete_switch" /\ pc' # "done")
            => /\ pc' = "complete_sync"
               /\ cwd' = origDirFile /\ chdirFile' = origDirFile
               /\ ~in_work_dir(cwd')
               /\ co' = co]_vars
    /\ [][pc = "complete_sync"
            => /\ cwd' = cwd
               /\ co'[options.workDir] = co[options.workDir]
               /\ log' = Append(log, "sync_failed") => pc' = "done" /\ status' = "UserWarning"
               /\ IF CurrentBranch(cwd) = loc.branch_name
                  THEN log' \in {Append(log, "sync_reset"), Append(log, "sync_failed")}
                  ELSE log' \in {Append(log, "sync_checkout"), Append(log, "sync_failed")}]_vars
    /\ []((pc = "done" /\ status = "ok" /\ InLog("leave_work_dir"))
            => /\ cwd = origDirFile /\ ~InsideWorkDir(cwd)
               /\ CurrentBranch(cwd) = loc.branch_name
               /\ co[cwd].state = "clean" /\ co[cwd].version = tip[loc.branch_name]
               /\ co[options.workDir].branch = Master
               /\ \E i \in 1..Len(log) - 2 :
                     /\ log[i] = "checkout_base" /\ log[i + 1] = "leave_work_dir"
                     /\ log[i + 2] \in {"sync_reset", "sync_checkout"}
                     /\ i + 2 = Len(log))

\* an Update of the branch that the original directory is on already
C17_Witness ==
    /\ pc = "done" /\ cmd = "update" /\ status = "ok"
    /\ InLog("checkout_base") /\ InLog("leave_work_dir") /\ InLog("sync_reset")
    /\ cwd = "orig" /\ co["orig"].version = "updated"
    /\ co["work"].branch = Master

\* C18 (as claimed): when complete_update resolves the original directory
\* and no path is recorded (the record is missing or empty), the resolution
\* does not fail: the engine moves to the primary checkout.
C18_AbsentRecordFallsBack ==
    [][(pc = "complete_switch" /\ origDirFile \in {None, ""})
         => /\ pc' = "complete_sync" /\ status' = status
            /\ cwd' = "orig" /\ chdirFile' = "orig"]_vars

\* the part of C18 that the code does: an empty record falls back to the
\* primary checkout
C18_EmptyRecordFallsBack ==
    [][(pc = "complete_switch" /\ origDirFile = "")
         => /\ pc' = "complete_sync" /\ status' = status
            /\ cwd' = "orig" /\ chdirFile' = "orig"]_vars

\* C19: the commit range derived by Update, and stored for the request, is
\* the first 10 characters of the head commit id when the merge base is the
\* head commit, and otherwise the first 10 characters of the merge base,
\* "..", and the first 10 characters of the head commit id.
C19_DerivedRange ==
    (pc = "update_operation" \/ InLog("update_ok") \/ InLog("update_conflict"))
      => LET t == loc.branch_treeish
             base == loc.parent_commit
             head == loc.head_commit
         IN /\ Marker(loc.pull_request_ID) = t
            /\ Len(base) > AbbrevLen /\ Len(head) > AbbrevLen
            /\ IF base = head
               THEN /\ Len(t) = AbbrevLen
                    /\ \A i \in 1..AbbrevLen : t[i] = head[i]
               ELSE /\ Len(t) = 2 * AbbrevLen + 2
                    /\ \A i \in 1..AbbrevLen : t[i] = base[i]
                    /\ t[AbbrevLen + 1] = "." /\ t[AbbrevLen + 2] = "."
                    /\ \A i \in 1..AbbrevLen : t[AbbrevLen + 2 + i] = head[i]

C19_Witness ==
    /\ pc = "update_operation"
    /\ loc.parent_commit # loc.head_commit
    /\ Len(loc.head_commit) > AbbrevLen
    /\ Contains(Marker(loc.pull_request_ID), DotDot)

\* s[i..j] is an issue key: three or more capitals, a hyphen, one or more
\* digits
IsKeyAt(s, i, j) ==
    \E h \in (i + MinKeyLetters)..(j - 1) :
        /\ s[h] = "-"
        /\ \A k \in i..(h - 1) : s[k] \in Upper
        /\ \A k \in (h + 1)..j : s[k] \in Digit

HasKey(s) == \E i, j \in 1..Len(s) : IsKeyAt(s, i, j)

\* the first match: it starts at the leftmost position where a key starts
\* and is the longest key starting there
FirstKey(s) ==
    LET i == CHOOSE a \in 1..Len(s) :
                 /\ \E j \in 1..Len(s) : IsKeyAt(s, a, j)
                 /\ \A b \in 1..(a - 1) : \A j \in 1..Len(s) : ~IsKeyAt(s, b, j)
        j == CHOOSE e \in 1..Len(s) :
                 /\ IsKeyAt(s, i, e)
                 /\ \A f \in (e + 1)..Len(s) : ~IsKeyAt(s, i, f)
    IN SubSeq(s, i, j)

HasSupportTag(title) ==
    \E i \in 1..Len(title) :
        /\ i + Len(TechSupportLit) - 1 <= Len(title)
        /\ SubSeq(title, i, i + Len(TechSupportLit) - 1) = TechSupportLit

\* C20: the branch name built for a request is <prefix>-<number>, then
\* -<key> exactly when the head ref contains an issue key, the key being
\* the first one, then -sup exactly when the title contains
\* [TECHNICAL SUPPORT]; so the key comes right after the number and -sup is
\* last.
C20_BranchNameShape ==
    nav.phase \in {"built", "roundtrip"}
      => LET r == nav.request
             base == nav.prefix \o <<"-">> \o IntToStr(r.number)
             keyPart == IF HasKey(r.ref) THEN <<"-">> \o FirstKey(r.ref) ELSE <<>>
             supPart == IF HasSupportTag(r.title) THEN <<"-", "s", "u", "p">> ELSE <<>>
         IN /\ nav.name = base \o keyPart \o supPart
            /\ EndsWith(nav.name, <<"-", "s", "u", "p">>) <=> HasSupportTag(r.title)
            /\ Len(nav.name) > Len(base) + Len(supPart)
                 <=> HasKey(r.ref)

C20_Witness ==
    /\ nav.phase = "built"
    /\ nav.prefix = PrefixPr /\ nav.request.number = MaxNumber
    /\ nav.request.ref = RefTwoKeys /\ nav.request.title = TitleSup
    /\ nav.name = <<"p", "r", "-", "1", "2", "-", "X", "L", "P", "S", "-", "5",
                    "-", "s", "u", "p">>

\* C21 (as claimed): every invocation ends either well with exit status 0
\* or with the one failure kind UserWarning and a non-zero exit status.
C21_UniformFailure ==
    pc = "done"
      => \/ status = "ok" /\ ExitCode = 0
         \/ status = "UserWarning" /\ ExitCode # 0

\* the part of C21 that the code does: zero exactly for success
C21_ExitStatus ==
    pc = "done" => (ExitCode = 0 <=> status = "ok")

\* the part of C22 that the code does: update with an integer runs Update on
\* the branch derived from that request (or fails when the hosting service
\* does), update with any other text runs Update on the branch of that name
C22_GivenTargets ==
    [][(nav.phase = "dispatch" /\ nav'.phase = "dispatched" /\ nav.target # NoText)
         => IF IsInt(nav.target)
            THEN \/ /\ pc' = "update_branch"
                    /\ loc'.branch_name =
                          build_branch_name(options.prefix, Request(StrToInt(nav.target)))
                 \/ pc' = "done" /\ status' = "UserWarning"
            ELSE pc' = "update_branch" /\ loc'.branch_name = nav.target]_vars

\* C22 (as claimed): as above, and update without an argument runs Update on
\* the current branch when that is a pull-request branch (and fails with
\* UserWarning when it is not).
C22_UpdateTargets ==
    /\ C22_GivenTargets
    /\ [][(nav.phase = "dispatch" /\ nav'.phase = "dispatched" /\ nav.target = NoText)
            => IF LooksLikePullRequest(options.prefix, CurrentBranch(cwd))
               THEN pc' = "update_branch" /\ loc'.branch_name = CurrentBranch(cwd)
               ELSE pc' = "done" /\ status' = "UserWarning"]_vars

\* C23: with no work directory configured, or a configured one that does not
\* exist, an update stays in the primary directory from start to end: it is
\* never inside the work directory, writes no original-directory record and
\* no next-directory pointer, leaves the work checkout alone, runs only the
\* checkout, the marker write and the update operation, and a successful one
\* ends right after the operation with no switch and no further checkout.
C23_NoWorkDirIsNoOp ==
    ((options.workDir = None \/ ~workDirExists) /\ cmd = "update")
      => /\ cwd = "orig"
         /\ ~in_work_dir(cwd)
         /\ origDirFile = None
         /\ chdirFile = None
         /\ co["work"] = Clean(Master, "fetched")
         /\ \A i \in 1..Len(log) :
               log[i] \in {"checkout", "checkout_failed", "put_treeish",
                           "update_ok", "update_conflict"}
         /\ (pc = "done" /\ status = "ok"
               => /\ log = <<"checkout", "put_treeish", "update_ok">>
                  /\ co["orig"] = Clean(loc.branch_name, "updated"))

C23_Witness ==
    /\ options.workDir = "work" /\ ~workDirExists
    /\ cmd = "update" /\ pc = "done" /\ status = "ok"
    /\ log = <<"checkout", "put_treeish", "update_ok">>

FetchLogEntries ==
    {"fetch_direct", "fetch_fallback", "remove_treeish", "fetch_direct_failed",
     "show_ref_failed", "fetch_checkout", "fetch_checkout_failed"}

\* C24: a fetch with the update asked for goes from the successful fetch
\* straight into update_branch of the fetched branch, within the same
\* invocation; when such an invocation ends well, its log has the marker
\* removal of the fetch followed by the marker write of the update, and the
\* marker of the fetched request is the range this update derived.  A fetch
\* without the update asked for runs no step of Update.
C24_FetchChainsUpdate ==
    /\ [][(pc = "fetch_done" /\ loc.auto_update)
            => /\ pc' = "update_branch" /\ cmd' = "fetch"
               /\ loc'.branch_name =
                     build_branch_name(options.prefix, Request(loc.pull_request_ID))
               /\ UNCHANGED <<treeish, co, cwd>>]_vars
    /\ []((cmd = "fetch" /\ loc.auto_update /\ pc = "done" /\ status = "ok")
            => /\ \E i, j \in 1..Len(log) :
                     i < j /\ log[i] = "remove_treeish" /\ log[j] = "put_treeish"
               /\ loc.branch_name =
                     build_branch_name(options.prefix, Request(loc.pull_request_ID))
               /\ loc.branch_treeish # NoText
               /\ Marker(loc.pull_request_ID) = loc.branch_treeish
               /\ loc.branch_treeish =
                     BranchTreeish(loc.parent_commit, loc.head_commit))
    /\ []((cmd = "fetch" /\ ~loc.auto_update)
            => /\ pc \in {"fetch", "fetch_pull_request", "fetch_done", "done"}
               /\ \A i \in 1..Len(log) : log[i] \in FetchLogEntries)

\* a fetch with update of a request whose branch had been updated before (its
\* marker had been stored by that update) ends well
C24_Witness ==
    /\ cmd = "fetch" /\ loc.auto_update /\ pc = "done" /\ status = "ok"
    /\ InLog("fetch_fallback") /\ InLog("put_treeish")
    /\ Marker(loc.pull_request_ID) = loc.branch_treeish

\* C25: a close command that ends well has closed the request of the branch
\* it started on at the hosting service, has the update branch checked out
\* and has deleted that branch, in this order: close call, checkout,
\* deletion.  The local steps run only after the close call, and a local
\* step that fails ends the command with UserWarning, leaving the branch.
C25_CloseCommand ==
    /\ []((cmd = "close" /\ pc = "done" /\ status = "ok")
            => /\ Len(log) >= 3
               /\ SubSeq(log, Len(log) - 2, Len(log))
                     = <<"close_call", "checkout_base", "delete_branch">>
               /\ Len(github) >= 1
               /\ github[Len(github)]
                     = [call |-> "close", id |-> loc.pull_request_ID, body |-> NoText]
               /\ get_pull_request_ID(options.prefix, loc.branch_name).id
                     = loc.pull_request_ID
               /\ co[cwd].branch = Master /\ co[cwd].state = "clean"
               /\ loc.branch_name \notin branches)
    /\ []((cmd = "close" /\ pc \in {"close_checkout", "close_delete"})
            => /\ InLog("close_call")
               /\ Len(github) >= 1 /\ github[Len(github)].call = "close")
    /\ [][(cmd = "close" /\ pc = "close_issue")
            => UNCHANGED <<co, branches>>]_vars
    /\ [][(pc = "close_checkout" /\ co' = co)
            => pc' = "done" /\ status' = "UserWarning" /\ branches' = branches]_vars
    /\ [][(pc = "close_delete" /\ branches' = branches)
            => pc' = "done" /\ status' = "UserWarning"]_vars

C25_Witness ==
    /\ cmd = "close" /\ pc = "done" /\ status = "ok"
    /\ InLog("delete_branch")
    /\ loc.branch_name \notin branches
    /\ co[cwd].branch = Master

\* the tags of position i and later, each as a space and the delimited tag
RECURSIVE TagsFrom(_, _, _, _)
TagsFrom(tags, i, open, close) ==
    IF i > Len(tags) THEN <<>>
    ELSE Space \o open \o tags[i] \o close \o TagsFrom(tags, i + 1, open, close)

\* C26: the title is a stem followed by the tags in the given order, each as
\* a space and the tag between the configured delimiters.  The stem is the
\* given title when there is one; otherwise it is the first issue key of the
\* branch name, or the branch name when it has no key, followed by
\* " [TECHNICAL SUPPORT]" exactly when the branch name ends in -sup.
C26_ResolveTitle ==
    nav.phase = "titled"
      => LET name == nav.branch_name
             tags == TagsFrom(nav.title_tags, 1, nav.tag_prefix, nav.tag_suffix)
             stem == SubSeq(nav.title, 1, Len(nav.title) - Len(tags))
             derived == IF HasKey(name) THEN FirstKey(name) ELSE name
             sup == name # <<>> /\ Len(name) >= 4
                    /\ SubSeq(name, Len(name) - 3, Len(name)) = <<"-", "s", "u", "p">>
         IN /\ Len(nav.title) >= Len(tags)
            /\ SubSeq(nav.title, Len(nav.title) - Len(tags) + 1, Len(nav.title)) = tags
            /\ (nav.pull_title # NoText /\ nav.pull_title # <<>>) => stem = nav.pull_title
            /\ (nav.pull_title = NoText \/ nav.pull_title = <<>>)
                 => stem = IF sup THEN derived \o Space \o TechSupportLit ELSE derived

\* no title given, a branch name with an issue key that ends in -sup, two tags
C26_Witness ==
    /\ nav.phase = "titled"
    /\ nav.pull_title = <<>>
    /\ HasKey(nav.branch_name) /\ EndsWith(nav.branch_name, Hyphen \o SupLit)
    /\ Len(nav.title_tags) = 2
    /\ nav.tag_prefix = <<"[">>
    /\ nav.title = FirstKey(nav.branch_name) \o Space \o TechSupportLit
                      \o <<" ", "[">> \o nav.title_tags[1] \o <<"]", " ", "[">>
                      \o nav.title_tags[2] \o <<"]">>

\* a merge or rebase of an update is stopped in the work directory
ConflictPending ==
    InsideWorkDir("work") /\ co["work"].state \in {"conflict", "resolved"}

\* the part of C27 that the code does: an Update that stopped on a conflict
\* in the work directory leaves the next-directory pointer on the work
\* directory
C27_PointerAfterConflict ==
    (pc = "done" /\ InLog("update_conflict") /\ InsideWorkDir("work"))
      => chdirFile = "work" /\ cwd = "work" /\ ConflictPending

\* every Update started in the work directory while the conflict is pending
\* is rejected as invalid context
C27_UpdateRejected ==
    [][(cmd = "update" /\ pc = "update_branch" /\ cwd = "work" /\ ConflictPending)
         => /\ pc' = "done" /\ status' = "UserWarning"
            /\ log' = <<"invalid_context">>]_vars

\* no step other than one of ContinueUpdate ends the pending conflict
C27_OnlyContinueLeaves ==
    [][(ConflictPending /\ ~ConflictPending') => cmd = "continue"]_vars

\* C27 (as claimed): after an Update stopped on a conflict the pointer names
\* the work directory, every Update started there is rejected as invalid
\* context, and only ContinueUpdate ends the pending conflict.
C27_ConflictPendingGuarded ==
    /\ []C27_PointerAfterConflict
    /\ C27_UpdateRejected
    /\ C27_OnlyContinueLeaves

\* C28 (as claimed): an invocation that ends inside the work directory, with
\* the next-directory pointer on it, has a merge or rebase pending there.
C28_InsideImpliesPending ==
    (pc = "done" /\ InsideWorkDir(cwd) /\ chdirFile = "work") => ConflictPending

\* commands of the update cycle that failed for good
FatalFailure ==
    \/ InLog("reset_failed") \/ InLog("checkout_failed")
    \/ InLog("checkout_base_failed")
    \/ status \in {"AttributeError", "IOError"}

\* C28 (amended): an Update or ContinueUpdate that ends well ends outside the
\* work directory with the next-directory pointer off it; one that ends
\* inside it with the pointer on it and nothing pending has failed, and
\* either it changed nothing (it was refused before its first command, as
\* invalid context or with nothing to continue) or it met a fatal failure
\* of the reset, of a checkout, of the request-id resolution or of the
\* original-directory lookup.
C28_StuckOnlyAfterFatalFailure ==
    (cmd \in {"update", "continue"} /\ pc = "done" /\ InsideWorkDir("work"))
      => /\ status = "ok" => ~InsideWorkDir(cwd) /\ chdirFile # "work"
         /\ (InsideWorkDir(cwd) /\ chdirFile = "work" /\ ~ConflictPending)
              => /\ status # "ok"
                 /\ \/ log = <<>>
                    \/ log = <<"invalid_context">>
                    \/ log = <<"still_blocked">>
                    \/ FatalFailure

\* a ContinueUpdate whose base checkout failed: inside the work directory,
\* pointer on it, nothing pending
C28_Witness ==
    /\ cmd = "continue" /\ pc = "done" /\ status = "UserWarning"
    /\ InLog("continue_ok") /\ InLog("checkout_base_failed")
    /\ InsideWorkDir(cwd) /\ chdirFile = "work"
    /\ ~ConflictPending

\* C29: in an Update or a ContinueUpdate the stored commit ranges change in
\* one step only, the marker write of Update; that step writes the range
\* under the request id resolved from the branch name Update was given and
\* leaves the range of every other request as it was; an Update runs it at
\* most once, and a ContinueUpdate (with the leaving of the work directory,
\* which ends it and ends a successful Update) never.
C29_MarkerWrittenOnceForOwnRequest ==
    /\ [][(cmd \in {"update", "continue"} /\ (treeish' # treeish \/ pc = "treeish"))
            => LET r == get_pull_request_ID(options.prefix, loc.branch_name) IN
               /\ cmd = "update" /\ pc = "treeish"
               /\ ~InLog("put_treeish")
               /\ r.exc = None
                    => /\ Marker(r.id)' = loc'.branch_treeish
                       /\ log' = Append(log, "put_treeish")
               /\ \A m \in IDs : (r.exc # None \/ m # r.id) => Marker(m)' = Marker(m)]_vars
    /\ [](cmd \in {"update", "continue"}
            => Cardinality({i \in 1..Len(log) : log[i] = "put_treeish"})
                 <= (IF cmd = "update" THEN 1 ELSE 0))
    /\ [][(pc \in {"complete_update", "complete_switch", "complete_sync",
                    "continue", "continue_branch"})
            => treeish' = treeish]_vars

\* a ContinueUpdate has ended well while the ranges of two requests are
\* stored and differ
C29_Witness ==
    /\ cmd = "continue" /\ pc = "done" /\ status = "ok"
    /\ \E m, n \in IDs :
          /\ m # n
          /\ Marker(m) # NoText /\ Marker(n) # NoText
          /\ Marker(m) # Marker(n)

\* an Update is running on a branch name that resolves to no request id
UnresolvableUpdate ==
    /\ cmd = "update" /\ pc \notin {"idle", "done"}
    /\ get_pull_request_ID(options.prefix, loc.branch_name).exc # None

\* the part of C30 that the code does: such an Update writes no marker and
\* no next-directory pointer, and it never ends well
C30_NoMarkerWritten ==
    [][UnresolvableUpdate
         => /\ UNCHANGED <<treeish, chdirFile>>
            /\ pc' = "done" => status' # "ok"]_vars

\* C30 (as claimed): such an Update changes nothing before it fails: no
\* switch into the work directory, no original-directory record, no reset,
\* no checkout, no marker.
C30_UnresolvableUpdateChangesNothing ==
    /\ C30_NoMarkerWritten
    /\ [][UnresolvableUpdate
            => /\ UNCHANGED <<cwd, origDirFile, co, branches, tip>>
               /\ log' # log =>
                     log' \notin {Append(log, e) :
                                    e \in {"reset", "checkout", "put_treeish"}}]_vars

\* C31: when fetch_pull_request returns, the name it returns is the branch
\* name built for the request and a local branch of that name exists: the
\* direct fetch has created it or brought it to the fetched head, or the
\* direct fetch failed, the branch was there before and is left as it was.
\* The branch is still there when the fetch command ends well.
C31_FetchedBranchExists ==
    /\ [][(pc = "fetch_pull_request" /\ pc' = "fetch_done")
            => LET name == build_branch_name(options.prefix, Request(loc.pull_request_ID)) IN
               /\ loc'.branch_name = name
               /\ name \in branches'
               /\ \/ /\ log' = log \o <<"fetch_direct", "remove_treeish">>
                     /\ branches' = branches \cup {name}
                     /\ tip'[name] = "fetched"
                  \/ /\ log' = log \o <<"fetch_fallback", "remove_treeish">>
                     /\ name \in branches
                     /\ UNCHANGED <<branches, tip>>]_vars
    /\ []((cmd = "fetch" /\ (pc = "fetch_done" \/ (pc = "done" /\ status = "ok")))
            => /\ loc.branch_name =
                     build_branch_name(options.prefix, Request(loc.pull_request_ID))
               /\ loc.branch_name \in branches)

\* a fetch without update has ended well on the fallback: the direct fetch
\* failed and the branch, updated locally before, was already there
C31_Witness ==
    /\ cmd = "fetch" /\ pc = "done" /\ status = "ok" /\ ~loc.auto_update
    /\ InLog("fetch_fallback")
    /\ loc.branch_name \in branches
    /\ tip[loc.branch_name] = "updated"

====
